---- MODULE Spec2Model ----
(***************************************************************************)
(* Frame layout tree of led (src/py/led.py, class Frames): a flat store of *)
(* frames linked by child ids, with one root and one active leaf.         *)
(* Ratios are kept in hundredths (0.5 is 50), indexes are 1-based and the  *)
(* Python None of idx/parent_idx is NoIdx.                                 *)
(* Text pads of led (class ReplEditor): a list of pads, each a buffer of   *)
(* lines seen through a window of width x height cells with origin         *)
(* (buf_x, buf_y) and cursor (cur_x, cur_y).  A line is a sequence of code *)
(* points, an optional argument is <<>> (None) or <<v>>.                   *)
(* Terminal editor of led_zero (src/led_zero.py): the key_reader thread    *)
(* puts the bytes it reads on key_queue, the input_loop thread decodes     *)
(* them into events on input_queue, the editor loop of create_editor       *)
(* dispatches the events.  An event and a queued byte carry the number of  *)
(* the byte read (key), which the program does not hold.                   *)
(* Early prototype (src/led.py): lframes holds the LFrame objects in the   *)
(* order of their construction, an object is named by its position and     *)
(* None is 0; the first object is root_frame.                              *)
(***************************************************************************)
EXTENDS Integers, Sequences, FiniteSets, TLC

VARIABLES frames, fr_id, root_id, active_id, pads, editor_esc, last,
          key_queue, decoder, input_queue, alive, dispatched, n_read,
          lframes

vars == <<frames, fr_id, root_id, active_id, pads, editor_esc, last,
          key_queue, decoder, input_queue, alive, dispatched, n_read,
          lframes>>

\* the state of the threads of led_zero
zero_vars == <<key_queue, decoder, input_queue, alive, dispatched, n_read>>

\* ---- bounds of the model ----
MaxSplits == 3
MaxSplitsFew == 2
MaxDelta == 15
MaxResize == 3
MaxSurface == 7
MaxWindow == 2
MaxLines == 2
MaxChars == 3
MaxArg == 2
MaxString == 2
MaxKeys == 4
MaxScroll == 4
MaxLineLen == 5
MaxRows == 5
MaxLFrames == 5

\* ---- program constants ----
NoIdx == 0
NoContent == "None"
RatioSplit == 50
RatioHigh == 80
RatioLow == 20
RatioOne == 100

\* every id the bounded model can issue, and the arguments of the calls
MaxId == 1 + 2 * MaxSplits
Direction == {"NONE", "HORIZONTAL", "VERTICAL"}
SplitDirections == {"HORIZONTAL", "VERTICAL"}
Contents == {NoContent, "c1", "c2"}
Ids == 0 .. (MaxId + 1)
Deltas == {0 - MaxDelta, 0, MaxDelta}
Surfaces == {<<0, 0, 800, 600>>, <<1, 2, MaxSurface, MaxSurface - 2>>}
PadIds == {0}
\* pad ids outside 0 .. len(pads) - 1 of an editor with one pad
OtherIds == {0 - 2, 0 - 1, 1}
Windows == 1 .. MaxWindow
Keys == {<<9>>, <<97>>, <<98>>}
Cmds == {"bsp", "nl", "up", "down", "left", "right", "home", "end",
         "PgUp", "PgDown", "Start", "End", "err", "char"}
\* the bytes a key press sends: ^X, ESC, "[", "5", "~", "a"
Bytes == {24, 27, 91, 53, 126, 97}
Strings == UNION {[1 .. n -> {97, 98}] : n \in 1 .. MaxString}
OptArgs == {<<>>} \cup {<<v>> : v \in (0 - MaxArg) .. MaxArg}
\* a relative and an absolute argument for one axis; next to an absolute one
\* the relative one is None or 1
AxisArgs ==
  {a \in OptArgs \X OptArgs : a[2] # <<>> => a[1] \in {<<>>, <<1>>}}
ResizeDeltas == ((0 - MaxResize) .. MaxResize) \cup Deltas \cup {0 - RatioOne, RatioOne}

\* ---- class Frame ----
Frame(id, content) ==
  [id |-> id, c_lu |-> 0, c_rd |-> 0, direction |-> "NONE", ratio |-> 0,
   x |-> 0, y |-> 0, wx |-> 0, hy |-> 0, content |-> content]

IsLeaf(fr) == fr.c_lu = 0 /\ fr.c_rd = 0

\* ---- class Frames: a state is [frames, fr_id, root_id, active_id] ----
State == [frames |-> frames, fr_id |-> fr_id, root_id |-> root_id,
          active_id |-> active_id]

\* get_id that derives the id from the size of the store
get_id_from_len(s) == [s EXCEPT !.fr_id = Len(s.frames) + 1]

get_id(s) == [s EXCEPT !.fr_id = s.fr_id + 1]

\* create that puts the new frame at the front of the store
create_at_front(s, content) ==
  LET s1 == get_id(s)
      id == s1.fr_id
  IN [id |-> id, s |-> [s1 EXCEPT !.frames = <<Frame(id, content)>> \o s1.frames]]

create(s, content) ==
  LET s1 == get_id(s)
      id == s1.fr_id
  IN [id |-> id, s |-> [s1 EXCEPT !.frames = Append(s1.frames, Frame(id, content))]]

idx(fs, id) ==
  LET hits == {i \in 1 .. Len(fs) : fs[i].id = id}
  IN IF hits = {} THEN NoIdx ELSE CHOOSE i \in hits : \A j \in hits : i <= j

parent_idx(fs, id) ==
  LET hits == {i \in 1 .. Len(fs) : fs[i].c_lu = id \/ fs[i].c_rd = id}
  IN IF hits = {} THEN NoIdx ELSE CHOOSE i \in hits : \A j \in hits : i <= j

remove(fs, i) == [k \in 1 .. (Len(fs) - 1) |-> IF k < i THEN fs[k] ELSE fs[k + 1]]

\* win_frames: the leaves in store order, and the 0-based position of the
\* active frame among them (-1 when it is not among them)
win_frames_wfr(fs) == SelectSeq(fs, IsLeaf)

win_frames_a_idx(fs, act) ==
  LET wfr == win_frames_wfr(fs)
      hits == {i \in 1 .. Len(wfr) : wfr[i].id = act}
  IN IF hits = {} THEN -1 ELSE (CHOOSE i \in hits : \A j \in hits : i >= j) - 1

\* next that stays on the last leaf instead of wrapping
next_no_wrap(s) ==
  LET wfr == win_frames_wfr(s.frames)
      a_idx == win_frames_a_idx(s.frames, s.active_id)
  IN IF a_idx < Len(wfr) - 1
     THEN [s EXCEPT !.active_id = wfr[a_idx + 2].id]
     ELSE s

next(s) ==
  LET wfr == win_frames_wfr(s.frames)
      a_idx == win_frames_a_idx(s.frames, s.active_id)
  IN IF a_idx < Len(wfr) - 1
     THEN [s EXCEPT !.active_id = wfr[a_idx + 2].id]
     ELSE [s EXCEPT !.active_id = wfr[1].id]

remove_fr(fs, id) == remove(fs, idx(fs, id))

\* delete_remove that leaves the parent in the store
delete_remove_keep_parent(s, p_fr, fr, active) ==
  LET s1 == [s EXCEPT !.frames = remove_fr(s.frames, fr.id)]
  IN [ret |-> TRUE, s |-> IF active THEN next(s1) ELSE s1]

\* delete_remove that leaves active_id as it was
delete_remove_stale_active(s, p_fr, fr, active) ==
  [ret |-> TRUE,
   s |-> [s EXCEPT !.frames = remove_fr(remove_fr(s.frames, p_fr.id), fr.id)]]

\* the two removals and the move of the active frame that end delete
delete_remove(s, p_fr, fr, active) ==
  LET s1 == [s EXCEPT !.frames = remove_fr(remove_fr(s.frames, p_fr.id), fr.id)]
  IN [ret |-> TRUE, s |-> IF active THEN next(s1) ELSE s1]

\* delete_link_rd that writes the other link of the grandparent
delete_link_rd_other(s, pp_idx, id) == [s EXCEPT !.frames[pp_idx].c_lu = id]

\* the grandparent's link to the parent is rewritten: pp_fr.c_lu = ..., pp_fr.c_rd = ...
delete_link_lu(s, pp_idx, id) == [s EXCEPT !.frames[pp_idx].c_lu = id]

delete_link_rd(s, pp_idx, id) == [s EXCEPT !.frames[pp_idx].c_rd = id]

\* delete, from the parent lookup on: fr is a leaf and not the root
delete_linked(s, id, fr, active) ==
  LET failed == [ret |-> FALSE, s |-> s]
      p_idx == parent_idx(s.frames, id)
  IN IF p_idx = NoIdx THEN failed
     ELSE LET p_fr == s.frames[p_idx] IN
     IF p_fr.id = s.root_id
     THEN IF p_fr.c_lu = id
          THEN delete_remove([s EXCEPT !.root_id = p_fr.c_rd], p_fr, fr, active)
          ELSE IF p_fr.c_rd = id
          THEN delete_remove([s EXCEPT !.root_id = p_fr.c_lu], p_fr, fr, active)
          ELSE failed
     ELSE LET pp_idx == parent_idx(s.frames, p_fr.id) IN
     IF pp_idx = NoIdx THEN failed
     ELSE LET pp_fr == s.frames[pp_idx] IN
     IF p_fr.c_lu = id
     THEN IF pp_fr.c_lu = p_fr.id
          THEN delete_remove(delete_link_lu(s, pp_idx, p_fr.c_rd), p_fr, fr, active)
          ELSE IF pp_fr.c_rd = p_fr.id
          THEN delete_remove(delete_link_rd(s, pp_idx, p_fr.c_rd), p_fr, fr, active)
          ELSE failed
     ELSE IF p_fr.c_rd = id
     THEN IF pp_fr.c_lu = p_fr.id
          THEN delete_remove(delete_link_lu(s, pp_idx, p_fr.c_lu), p_fr, fr, active)
          ELSE IF pp_fr.c_rd = p_fr.id
          THEN delete_remove(delete_link_rd(s, pp_idx, p_fr.c_lu), p_fr, fr, active)
          ELSE failed
     ELSE failed

\* delete_leaf that moves the active frame whichever frame is closed
delete_leaf_moves(s, id, fr, active) == delete_linked(s, id, fr, TRUE)

\* delete of a leaf that is not the root; active tells whether the leaf is
\* the active frame
delete_leaf(s, id, fr, active) == delete_linked(s, id, fr, active)

\* delete without the test for children
delete_no_child_test(s, id0) ==
  LET id == IF id0 = 0 THEN s.active_id ELSE id0
      active == (id = s.active_id)
      lc == idx(s.frames, id)
      failed == [ret |-> FALSE, s |-> s]
  IN IF lc = NoIdx THEN failed
     ELSE LET fr == s.frames[lc] IN
     IF fr.id = s.root_id THEN failed
     ELSE delete_leaf(s, id, fr, active)

delete(s, id0) ==
  LET id == IF id0 = 0 THEN s.active_id ELSE id0
      active == (id = s.active_id)
      lc == idx(s.frames, id)
      failed == [ret |-> FALSE, s |-> s]
  IN IF lc = NoIdx THEN failed
     ELSE LET fr == s.frames[lc] IN
     IF fr.c_lu # 0 \/ fr.c_rd # 0 THEN failed
     ELSE IF fr.id = s.root_id THEN failed
     ELSE delete_leaf(s, id, fr, active)

\* split_content_rd of a split that gives the content to the left child only
split_content_rd_none(fr) == NoContent

\* split_content_lu of a split that gives the content to the right child only
split_content_lu_none(fr) == NoContent

\* the content each new child of a split frame is created with
split_content_lu(fr) == fr.content
split_content_rd(fr) == fr.content

\* split_leaf that makes the right child the active frame
split_leaf_active_rd(s, i, direction) ==
  LET fr == s.frames[i]
      lu == create(s, split_content_lu(fr))
      rd == create(lu.s, split_content_rd(fr))
      k == idx(rd.s.frames, fr.id)
      s2 == [rd.s EXCEPT !.frames[k].direction = direction,
                         !.frames[k].ratio = RatioSplit,
                         !.frames[k].c_lu = lu.id,
                         !.frames[k].c_rd = rd.id,
                         !.frames[k].content = NoContent]
  IN [ret |-> TRUE,
      s |-> IF fr.id = s.active_id THEN [s2 EXCEPT !.active_id = rd.id] ELSE s2]

\* split, once the target is known to be a leaf of the store
split_leaf(s, i, direction) ==
  LET fr == s.frames[i]
      lu == create(s, split_content_lu(fr))
      rd == create(lu.s, split_content_rd(fr))
      k == idx(rd.s.frames, fr.id)
      s2 == [rd.s EXCEPT !.frames[k].direction = direction,
                         !.frames[k].ratio = RatioSplit,
                         !.frames[k].c_lu = lu.id,
                         !.frames[k].c_rd = rd.id,
                         !.frames[k].content = NoContent]
  IN [ret |-> TRUE,
      s |-> IF fr.id = s.active_id THEN [s2 EXCEPT !.active_id = lu.id] ELSE s2]

\* split without the test for children
split_no_child_test(s, id0, direction) ==
  LET id == IF id0 = 0 THEN s.active_id ELSE id0
      i == idx(s.frames, id)
      failed == [ret |-> FALSE, s |-> s]
  IN IF i = NoIdx THEN failed
     ELSE split_leaf(s, i, direction)

split(s, id0, direction) ==
  LET id == IF id0 = 0 THEN s.active_id ELSE id0
      i == idx(s.frames, id)
      failed == [ret |-> FALSE, s |-> s]
  IN IF i = NoIdx THEN failed
     ELSE LET fr == s.frames[i] IN
     IF fr.c_lu # 0 \/ fr.c_rd # 0 THEN failed
     ELSE split_leaf(s, i, direction)

\* size_rd that adds delta to the ratio as for the left child
size_rd_as_lu(s, p_idx, delta) ==
  IF delta > 0
  THEN IF s.frames[p_idx].ratio + delta < RatioHigh
       THEN [s EXCEPT !.frames[p_idx].ratio = @ + delta] ELSE s
  ELSE IF s.frames[p_idx].ratio + delta > RatioLow
       THEN [s EXCEPT !.frames[p_idx].ratio = @ + delta] ELSE s

\* size when the frame is the right/bottom child of the frame at p_idx
size_rd(s, p_idx, delta) ==
  IF delta > 0
  THEN IF s.frames[p_idx].ratio - delta > RatioLow
       THEN [s EXCEPT !.frames[p_idx].ratio = @ - delta] ELSE s
  ELSE IF s.frames[p_idx].ratio - delta < RatioHigh
       THEN [s EXCEPT !.frames[p_idx].ratio = @ - delta] ELSE s

\* size without the test against the upper limit when the left child grows
size_no_upper_test(s, id0, delta) ==
  LET id == IF id0 = 0 THEN s.active_id ELSE id0
  IN IF id = s.root_id THEN s
     ELSE IF delta = 0 THEN s
     ELSE LET p_idx == parent_idx(s.frames, id) IN
     IF p_idx = NoIdx THEN s
     ELSE LET p_fr == s.frames[p_idx] IN
     IF p_fr.c_lu = id
     THEN IF delta > 0
          THEN [s EXCEPT !.frames[p_idx].ratio = p_fr.ratio + delta]
          ELSE IF p_fr.ratio + delta > RatioLow
               THEN [s EXCEPT !.frames[p_idx].ratio = p_fr.ratio + delta] ELSE s
     ELSE IF p_fr.c_rd = id
     THEN IF delta > 0
          THEN IF p_fr.ratio - delta > RatioLow
               THEN [s EXCEPT !.frames[p_idx].ratio = p_fr.ratio - delta] ELSE s
          ELSE IF p_fr.ratio - delta < RatioHigh
               THEN [s EXCEPT !.frames[p_idx].ratio = p_fr.ratio - delta] ELSE s
     ELSE s

size(s, id0, delta) ==
  LET id == IF id0 = 0 THEN s.active_id ELSE id0
  IN IF id = s.root_id THEN s
     ELSE IF delta = 0 THEN s
     ELSE LET p_idx == parent_idx(s.frames, id) IN
     IF p_idx = NoIdx THEN s
     ELSE LET p_fr == s.frames[p_idx] IN
     IF p_fr.c_lu = id
     THEN IF delta > 0
          THEN IF p_fr.ratio + delta < RatioHigh
               THEN [s EXCEPT !.frames[p_idx].ratio = p_fr.ratio + delta] ELSE s
          ELSE IF p_fr.ratio + delta > RatioLow
               THEN [s EXCEPT !.frames[p_idx].ratio = p_fr.ratio + delta] ELSE s
     ELSE IF p_fr.c_rd = id
     THEN size_rd(s, p_idx, delta)
     ELSE s

int_ceil(n) == (n + RatioOne - 1) \div RatioOne

\* int() of the float n / RatioOne: the fraction is cut off, towards zero
int(n) == IF n >= 0 THEN n \div RatioOne ELSE 0 - ((0 - n) \div RatioOne)

\* _geometry of geometry: the frames after the rectangle (x, y, wx, hy) has
\* been laid out from frame id downwards
RECURSIVE geometry_rec(_, _, _, _, _, _)
geometry_rec(fs, id, x, y, wx, hy) ==
  LET f_idx == idx(fs, id) IN
  IF f_idx = NoIdx THEN fs
  ELSE LET fs1 == [fs EXCEPT ![f_idx].x = x, ![f_idx].y = y,
                             ![f_idx].wx = wx, ![f_idx].hy = hy]
           fr == fs1[f_idx]
       IN IF fr.c_lu # 0 /\ fr.c_rd # 0
          THEN IF fr.direction = "HORIZONTAL"
               THEN geometry_rec(
                      geometry_rec(fs1, fr.c_lu, fr.x, fr.y,
                                   int(fr.wx * fr.ratio), fr.hy),
                      fr.c_rd, fr.x + int(fr.wx * fr.ratio), fr.y,
                      int(fr.wx * (RatioOne - fr.ratio)), fr.hy)
               ELSE IF fr.direction = "VERTICAL"
               THEN geometry_rec(
                      geometry_rec(fs1, fr.c_lu, fr.x, fr.y,
                                   fr.wx, int(fr.hy * fr.ratio)),
                      fr.c_rd, fr.x, fr.y + int(fr.hy * fr.ratio),
                      fr.wx, int(fr.hy * (RatioOne - fr.ratio)))
               ELSE fs1
          ELSE fs1

geometry(s, x, y, wx, hy) ==
  [s EXCEPT !.frames = geometry_rec(s.frames, s.root_id, x, y, wx, hy)]

\* ---- Python sequences ----
\* an optional argument: None or a value
NoArg == <<>>
Arg(v) == <<v>>

\* s[i] exists; a negative i counts from the end
HasIndex(s, i) == 0 - Len(s) <= i /\ i < Len(s)
Index(s, i) == IF i < 0 THEN s[Len(s) + i + 1] ELSE s[i + 1]

\* the cut of the slices s[:k] and s[k:]
SliceAt(s, k) ==
  IF k < 0 THEN (IF Len(s) + k < 0 THEN 0 ELSE Len(s) + k)
  ELSE IF k > Len(s) THEN Len(s) ELSE k
SliceTo(s, k) == SubSeq(s, 1, SliceAt(s, k))
SliceFrom(s, k) == SubSeq(s, SliceAt(s, k) + 1, Len(s))

\* ---- class Pad, class ReplEditor ----
\* the outcome of a step on a pad: the pad, whether an exception left the
\* step, and the changed flag
Ok(p, changed) == [p |-> p, raised |-> FALSE, changed |-> changed]
Raise(p) == [p |-> p, raised |-> TRUE, changed |-> FALSE]

pad_create(ps, buffer, height, width, left_border, bottom_border) ==
  [pads |-> Append(ps, [width |-> width - left_border,
                         height |-> height - bottom_border,
                         cur_x |-> 0, cur_y |-> 0, buffer |-> buffer,
                         buf_x |-> 0, buf_y |-> 0]),
   pad_index |-> Len(ps)]

\* pad_move, the columns: relative by dx, or absolute by x
move_x(p, dx, x) ==
  IF x = NoArg
  THEN IF dx = NoArg THEN Ok(p, FALSE)
       ELSE IF dx[1] < 0
       THEN IF p.cur_x + dx[1] >= 0
            THEN Ok([p EXCEPT !.cur_x = @ + dx[1]], TRUE)
            ELSE IF p.buf_x + p.cur_x + dx[1] >= 0
            THEN IF p.buf_x + dx[1] < 0
                 THEN Ok([p EXCEPT !.buf_x = 0, !.cur_x = 0], TRUE)
                 ELSE Ok([p EXCEPT !.buf_x = @ + dx[1]], TRUE)
            ELSE Ok([p EXCEPT !.buf_x = 0, !.cur_x = 0], TRUE)
       ELSE IF dx[1] > 0
       THEN IF ~HasIndex(p.buffer, p.buf_y + p.cur_y) THEN Raise(p)
            ELSE LET len_x == Len(Index(p.buffer, p.buf_y + p.cur_y))
                 IN IF p.buf_x + p.cur_x < len_x
                    THEN IF p.cur_x < p.width
                         THEN Ok([p EXCEPT !.cur_x = @ + dx[1]], TRUE)
                         ELSE Ok([p EXCEPT !.buf_x = @ + dx[1]], TRUE)
                    ELSE Ok(p, FALSE)
       ELSE Ok(p, FALSE)
  ELSE IF x[1] = 0 - 1
       THEN IF ~HasIndex(p.buffer, p.buf_y + p.cur_y) THEN Raise(p)
            ELSE LET len_x == Len(Index(p.buffer, p.buf_y + p.cur_y))
                     len_w == IF len_x - p.width < 0 THEN 0
                              ELSE len_x - p.width
                 IN Ok([p EXCEPT !.buf_x = len_w, !.cur_x = len_x - len_w],
                       TRUE)
       ELSE IF x[1] = 0
       THEN Ok([p EXCEPT !.buf_x = 0, !.cur_x = 0], TRUE)
       ELSE IF ~HasIndex(p.buffer, p.buf_y + p.cur_y) THEN Raise(p)
            ELSE LET len_x == Len(Index(p.buffer, p.buf_y + p.cur_y))
                     xc == IF x[1] > len_x THEN len_x ELSE x[1]
                 IN IF xc <= p.width
                    THEN Ok([p EXCEPT !.buf_x = 0, !.cur_x = xc], TRUE)
                    ELSE Ok([p EXCEPT !.buf_x = xc, !.cur_x = 0], TRUE)

\* the move down that may step onto the row behind the last line
move_down_to_len(p, dy, changed) ==
  IF p.buf_y + p.cur_y <= Len(p.buffer) - dy
  THEN IF p.cur_y < p.height - 1
       THEN Ok([p EXCEPT !.cur_y = @ + dy], TRUE)
       ELSE Ok([p EXCEPT !.buf_y = @ + dy], TRUE)
  ELSE Ok(p, changed)

\* pad_move, the rows, relative by dy > 0: down by dy if that row exists
move_down(p, dy, changed) ==
  IF p.buf_y + p.cur_y < Len(p.buffer) - dy
  THEN IF p.cur_y < p.height - 1
       THEN Ok([p EXCEPT !.cur_y = @ + dy], TRUE)
       ELSE Ok([p EXCEPT !.buf_y = @ + dy], TRUE)
  ELSE Ok(p, changed)

\* pad_move, the rows: relative by dy, or absolute by y
move_y(p, dy, y, changed) ==
  IF y = NoArg
  THEN IF dy = NoArg THEN Ok(p, changed)
       ELSE IF dy[1] < 0
       THEN IF p.cur_y + dy[1] >= 0
            THEN Ok([p EXCEPT !.cur_y = @ + dy[1]], TRUE)
            ELSE IF p.buf_y + p.cur_y + dy[1] >= 0
            THEN IF p.buf_y + dy[1] < 0
                 THEN Ok([p EXCEPT !.buf_y = 0, !.cur_y = 0], TRUE)
                 ELSE Ok([p EXCEPT !.buf_y = @ + dy[1]], TRUE)
            ELSE Ok([p EXCEPT !.buf_y = 0, !.cur_y = 0], TRUE)
       ELSE IF dy[1] > 0
       THEN move_down(p, dy[1], changed)
       ELSE Ok(p, changed)
  ELSE IF y[1] = 0 - 1
       THEN LET len_y == Len(p.buffer)
                len_h == IF len_y - p.height < 0 THEN 0
                         ELSE len_y - p.height
            IN Ok([p EXCEPT !.buf_y = len_h, !.cur_y = len_y - len_h], TRUE)
       ELSE IF y[1] = 0
       THEN Ok([p EXCEPT !.buf_y = 0, !.cur_y = 0], TRUE)
       ELSE LET len_y == Len(p.buffer)
                yc == IF y[1] > len_y THEN len_y ELSE y[1]
            IN IF yc <= p.height
               THEN Ok([p EXCEPT !.buf_y = 0, !.cur_y = yc], TRUE)
               ELSE Ok([p EXCEPT !.buf_y = yc, !.cur_y = 0], TRUE)

\* pad_move that leaves the cursor behind the end of the line
clamp_x_none(p, changed) ==
  IF ~HasIndex(p.buffer, p.buf_y + p.cur_y) THEN Raise(p) ELSE Ok(p, changed)

\* pad_move, the end of the line: a cursor behind it is pulled back
clamp_x(p, changed) ==
  IF ~HasIndex(p.buffer, p.buf_y + p.cur_y) THEN Raise(p)
  ELSE LET len_x == Len(Index(p.buffer, p.buf_y + p.cur_y))
           delta == len_x - (p.buf_x + p.cur_x)
       IN IF delta < 0
          THEN IF p.cur_x + delta >= 0
               THEN Ok([p EXCEPT !.cur_x = @ + delta], TRUE)
               ELSE IF p.buf_x + delta < 0
               THEN Ok([p EXCEPT !.buf_x = 0, !.cur_x = 0], TRUE)
               ELSE Ok([p EXCEPT !.buf_x = @ + delta], TRUE)
          ELSE Ok(p, changed)

\* pad_move that leaves the cursor on the column behind the window
wrap_x_none(p, changed) == Ok(p, changed)

\* pad_move, a cursor on the column behind the window
wrap_x(p, changed) ==
  IF p.cur_x = p.width
  THEN Ok([p EXCEPT !.buf_x = @ + 1, !.cur_x = @ - 1], TRUE)
  ELSE Ok(p, changed)

\* pad_move, one iteration of the loop over a cursor below the window
scroll_step(p) ==
  [p EXCEPT !.buf_y = @ + 1, !.cur_y = IF @ > 0 THEN @ - 1 ELSE @]

\* pad_move, the loop over a cursor below the window, for a loop that ends
RECURSIVE scroll_y(_)
scroll_y(p) == IF p.cur_y >= p.height THEN scroll_y(scroll_step(p)) ELSE p

\* pad_move after the end of the line
move_wrap(rc) == IF rc.raised THEN rc ELSE wrap_x(rc.p, rc.changed)

\* pad_move after the rows
move_clamp(ry) == move_wrap(clamp_x(ry.p, ry.changed))

\* pad_move after the columns
move_rows(rx, dy, y) ==
  IF rx.raised THEN rx ELSE move_clamp(move_y(rx.p, dy, y, rx.changed))

\* pad_move on the pad it addresses, up to the loop
before_loop(p, dx, dy, x, y) == move_rows(move_x(p, dx, x), dy, y)

\* pad_move from the loop on: the window is put over the cursor
move_window(rc) == IF rc.raised THEN rc ELSE Ok(scroll_y(rc.p), rc.changed)

\* pad_move on the pad it addresses
move(p, dx, dy, x, y) == move_window(before_loop(p, dx, dy, x, y))

pad_move(ps, pad_id, dx, dy, x, y) ==
  IF pad_id >= Len(ps) THEN [pads |-> ps, raised |-> FALSE, changed |-> FALSE]
  ELSE IF ~HasIndex(ps, pad_id)
  THEN [pads |-> ps, raised |-> TRUE, changed |-> FALSE]
  ELSE LET k == IF pad_id < 0 THEN Len(ps) + pad_id + 1 ELSE pad_id + 1
           r == move(ps[k], dx, dy, x, y)
       IN [pads |-> [ps EXCEPT ![k] = r.p], raised |-> r.raised,
           changed |-> r.changed]

\* s[i] = v, del s[i] and s.insert(i, v)
SetIndex(s, i, v) ==
  [s EXCEPT ![IF i < 0 THEN Len(s) + i + 1 ELSE i + 1] = v]
DelIndex(s, i) ==
  LET k == IF i < 0 THEN Len(s) + i + 1 ELSE i + 1
  IN SubSeq(s, 1, k - 1) \o SubSeq(s, k + 1, Len(s))
Insert(s, i, v) == SliceTo(s, i) \o <<v>> \o SliceFrom(s, i)

\* cmd "bsp" that steps left and deletes nothing
bsp_char_none(q, row, col) == Ok(q, TRUE)

\* cmd "bsp" after the step left: the character under the cursor goes
bsp_char(q, row, col) ==
  IF ~HasIndex(q.buffer, row) THEN Raise(q)
  ELSE Ok([q EXCEPT !.buffer =
             SetIndex(@, row,
                      SliceTo(Index(q.buffer, row), col)
                      \o SliceFrom(Index(q.buffer, row), col + 1))],
          TRUE)

bsp_left(r) ==
  IF r.raised THEN Raise(r.p)
  ELSE bsp_char(r.p, r.p.buf_y + r.p.cur_y, r.p.buf_x + r.p.cur_x)

\* cmd "bsp" after the move to the end of the line above: cur_line is
\* appended to it and line cur_idx goes
bsp_del(q, joined, cur_idx) ==
  IF ~HasIndex(joined, cur_idx) THEN Raise([q EXCEPT !.buffer = joined])
  ELSE Ok([q EXCEPT !.buffer = DelIndex(joined, cur_idx)], TRUE)

bsp_join(q, cur_idx_new, cur_line, cur_idx) ==
  IF ~HasIndex(q.buffer, cur_idx_new) THEN Raise(q)
  ELSE bsp_del(q, SetIndex(q.buffer, cur_idx_new,
                           Index(q.buffer, cur_idx_new) \o cur_line),
               cur_idx)

bsp_end(r2, cur_line, cur_idx) ==
  IF r2.raised THEN Raise(r2.p)
  ELSE bsp_join(r2.p, r2.p.cur_y + r2.p.buf_y, cur_line, cur_idx)

\* cmd "bsp" whose join does not move to the end of the line above
bsp_up_stay(r1, cur_line, cur_idx) ==
  IF r1.raised THEN Raise(r1.p)
  ELSE bsp_end(r1, cur_line, cur_idx)

bsp_up(r1, cur_line, cur_idx) ==
  IF r1.raised THEN Raise(r1.p)
  ELSE bsp_end(move(r1.p, NoArg, NoArg, Arg(0 - 1), NoArg), cur_line,
               cur_idx)

\* cmd "bsp" that joins lines on the first row as well
cmd_bsp_first_row(p) ==
  IF p.cur_x + p.buf_x > 0
  THEN bsp_left(move(p, Arg(0 - 1), NoArg, NoArg, NoArg))
  ELSE IF ~HasIndex(p.buffer, p.cur_y + p.buf_y) THEN Raise(p)
  ELSE bsp_up(move(p, NoArg, Arg(0 - 1), NoArg, NoArg),
              Index(p.buffer, p.cur_y + p.buf_y), p.cur_y + p.buf_y)

\* editor_event, cmd "bsp"
cmd_bsp(p) ==
  IF p.cur_x + p.buf_x > 0
  THEN bsp_left(move(p, Arg(0 - 1), NoArg, NoArg, NoArg))
  ELSE IF p.cur_y + p.buf_y > 0
  THEN IF ~HasIndex(p.buffer, p.cur_y + p.buf_y) THEN Raise(p)
       ELSE bsp_up(move(p, NoArg, Arg(0 - 1), NoArg, NoArg),
                   Index(p.buffer, p.cur_y + p.buf_y), p.cur_y + p.buf_y)
  ELSE Ok(p, FALSE)

\* cmd "nl" that always puts the rest of the line at the end of the buffer
cmd_nl_append(p) ==
  LET cur_ind == p.cur_y + p.buf_y
      cur_line == Index(p.buffer, cur_ind)
  IN move([p EXCEPT !.buffer =
             Append(SetIndex(p.buffer, cur_ind,
                             SliceTo(cur_line, p.cur_x + p.buf_x)),
                    SliceFrom(cur_line, p.cur_x + p.buf_x))],
          NoArg, Arg(1), Arg(0), NoArg)

\* editor_event, cmd "nl"; exit(1) leaves the program as an exception does
cmd_nl(p) ==
  LET cur_ind == p.cur_y + p.buf_y
      cur_pos == p.cur_x + p.buf_x
  IN IF cur_ind >= Len(p.buffer) \/ ~HasIndex(p.buffer, cur_ind)
     THEN Raise(p)
     ELSE LET cur_line == Index(p.buffer, cur_ind)
              cut == SetIndex(p.buffer, cur_ind, SliceTo(cur_line, cur_pos))
              right == SliceFrom(cur_line, cur_pos)
              q == [p EXCEPT !.buffer =
                      IF cur_ind = Len(p.buffer) - 1
                      THEN Append(cut, right)
                      ELSE Insert(cut, cur_ind + 1, right)]
          IN move(q, NoArg, Arg(1), Arg(0), NoArg)

\* cmd "End" after the move to the last line
End_row(r1) ==
  IF r1.raised THEN r1 ELSE move(r1.p, NoArg, NoArg, Arg(0 - 1), NoArg)

\* cmd "End" without the move to the end of the last line
cmd_End_row_only(p) ==
  LET llen == Len(p.buffer) - 1
      y == IF llen + p.height > llen THEN llen ELSE llen + p.height
  IN move(p, NoArg, NoArg, NoArg, Arg(y))

\* editor_event, cmd "End"
cmd_End(p) ==
  LET llen == Len(p.buffer) - 1
      y == IF llen + p.height > llen THEN llen ELSE llen + p.height
  IN End_row(move(p, NoArg, NoArg, NoArg, Arg(y)))

\* cmd "char" that puts the text at the head of the line
cmd_char_front(p, msg) ==
  LET cur_ind == p.cur_y + p.buf_y
  IN IF msg[1] >= 32
     THEN move([p EXCEPT !.buffer =
                  SetIndex(@, cur_ind, msg \o Index(p.buffer, cur_ind))],
               Arg(1), NoArg, NoArg, NoArg)
     ELSE Ok(p, FALSE)

\* editor_event, cmd "char": msg is the text of the key
cmd_char(p, msg) ==
  LET cur_ind == p.cur_y + p.buf_y
      cur_line == Index(p.buffer, cur_ind)
      col == p.buf_x + p.cur_x
  IN IF ~HasIndex(p.buffer, cur_ind) \/ msg = <<>> THEN Raise(p)
     ELSE IF msg[1] >= 32
     THEN move([p EXCEPT !.buffer =
                  SetIndex(@, cur_ind,
                           SliceTo(cur_line, col) \o msg
                           \o SliceFrom(cur_line, col))],
               Arg(1), NoArg, NoArg, NoArg)
     ELSE Ok(p, FALSE)

\* editor_event on the pad it addresses: the pad and whether an exception
\* left the call
edit(p, cmd, msg) ==
  IF cmd = "bsp" THEN cmd_bsp(p)
  ELSE IF cmd = "nl" THEN cmd_nl(p)
  ELSE IF cmd = "up" THEN move(p, NoArg, Arg(0 - 1), NoArg, NoArg)
  ELSE IF cmd = "down" THEN move(p, NoArg, Arg(1), NoArg, NoArg)
  ELSE IF cmd = "left" THEN move(p, Arg(0 - 1), NoArg, NoArg, NoArg)
  ELSE IF cmd = "right" THEN move(p, Arg(1), NoArg, NoArg, NoArg)
  ELSE IF cmd = "home" THEN move(p, NoArg, NoArg, Arg(0), NoArg)
  ELSE IF cmd = "end" THEN move(p, NoArg, NoArg, Arg(0 - 1), NoArg)
  ELSE IF cmd = "PgUp" THEN move(p, NoArg, Arg(0 - p.height), NoArg, NoArg)
  ELSE IF cmd = "PgDown" THEN move(p, NoArg, Arg(p.height), NoArg, NoArg)
  ELSE IF cmd = "Start" THEN move(p, NoArg, NoArg, Arg(0), Arg(0))
  ELSE IF cmd = "End" THEN cmd_End(p)
  ELSE IF cmd = "char" THEN cmd_char(p, msg)
  ELSE Ok(p, FALSE)

\* editor_event(pad_id, cmd, msg) with debug False
editor_event(ps, esc, pad_id, cmd, msg) ==
  IF ~(pad_id >= 0 /\ pad_id < Len(ps))
  THEN [pads |-> ps, editor_esc |-> esc, raised |-> FALSE]
  ELSE IF cmd = "exit"
  THEN [pads |-> ps, editor_esc |-> TRUE, raised |-> FALSE]
  ELSE LET r == edit(ps[pad_id + 1], cmd, msg)
       IN [pads |-> [ps EXCEPT ![pad_id + 1] = r.p], editor_esc |-> esc,
           raised |-> r.raised]

(***************************************************************************)
(* led_zero: the decoder of the input_loop thread.  A step of the thread   *)
(* gives the thread's new state d and the events out it puts on            *)
(* input_queue.                                                            *)
(***************************************************************************)
\* an input event
InputEvent(cmd, msg, key) == [cmd |-> cmd, msg |-> msg, key |-> key]

NoEvent == InputEvent("", <<>>, 0)
Step(d, out) == [d |-> d, out |-> out]

EndsWith(s, t) ==
  /\ Len(t) <= Len(s)
  /\ \A i \in 1 .. Len(t) : s[Len(s) - Len(t) + i] = t[i]

\* the command of a two-character escape code, "" for the codes that wait
\* for a "~"
esc_cmd(code) ==
  IF code = <<91, 65>> THEN "up"
  ELSE IF code = <<91, 66>> THEN "down"
  ELSE IF code = <<91, 67>> THEN "right"
  ELSE IF code = <<91, 68>> THEN "left"
  ELSE IF code = <<91, 70>> THEN "end"
  ELSE IF code = <<91, 72>> THEN "home"
  ELSE IF code = <<79, 80>> THEN "F1"
  ELSE IF code = <<79, 81>> THEN "F2"
  ELSE IF code = <<79, 82>> THEN "F3"
  ELSE IF code = <<79, 83>> THEN "F4"
  ELSE IF code[1] = 91 /\ code[2] \in 49 .. 54 THEN ""
  ELSE "err"

\* the event tinp after the tests of a two-character escape code: the "~"
\* codes leave tinp as the last iteration left it
esc_tinp(d, key) ==
  IF esc_cmd(d.esc_code) = "" THEN d.tinp
  ELSE IF esc_cmd(d.esc_code) = "err"
  THEN InputEvent("err", <<69, 83, 67, 45>> \o d.esc_code, key)
  ELSE InputEvent(esc_cmd(d.esc_code), <<>>, key)

esc_pair(d, key) ==
  IF esc_tinp(d, key).cmd # ""
  THEN Step([d EXCEPT !.tinp = NoEvent, !.esc_code = <<>>,
                      !.esc_state = FALSE,
                      !.term_char = IF esc_cmd(d.esc_code) = ""
                                    THEN <<126>> ELSE @],
            <<esc_tinp(d, key)>>)
  ELSE Step([d EXCEPT !.term_char = <<126>>], <<>>)

\* the command of an escape code that ends with the terminating character
term_cmd(code) ==
  IF code = <<91, 53, 126>> THEN "PgUp"
  ELSE IF code = <<91, 54, 126>> THEN "PgDown"
  ELSE IF code = <<91, 53, 59, 50, 126>> THEN "Start"
  ELSE IF code = <<91, 54, 59, 50, 126>> THEN "End"
  ELSE "EscSeq"

esc_term(r, key) ==
  IF r.d.term_char # <<>> /\ EndsWith(r.d.esc_code, r.d.term_char)
  THEN Step([r.d EXCEPT !.tinp = NoEvent, !.esc_code = <<>>,
                        !.esc_state = FALSE, !.term_char = <<>>],
            Append(r.out,
                   InputEvent(term_cmd(r.d.esc_code),
                              IF term_cmd(r.d.esc_code) = "EscSeq"
                              THEN r.d.esc_code ELSE <<>>,
                              key)))
  ELSE r

\* a byte inside an escape sequence
esc_byte(d, key) ==
  esc_term(IF Len(d.esc_code) = 2 THEN esc_pair(d, key) ELSE Step(d, <<>>),
           key)

\* the command of a byte outside an escape sequence
key_cmd(inp) ==
  IF inp = 127 THEN "bsp"
  ELSE IF inp = 5 THEN "end"
  ELSE IF inp = 10 THEN "nl"
  ELSE IF inp = 1 THEN "home"
  ELSE IF inp = 6 THEN "right"
  ELSE IF inp = 2 THEN "left"
  ELSE IF inp = 14 THEN "down"
  ELSE IF inp = 16 THEN "up"
  ELSE IF inp = 24 THEN "exit"
  ELSE "char"

key_event(inp, key) ==
  InputEvent(key_cmd(inp), IF key_cmd(inp) = "char" THEN <<inp>> ELSE <<>>,
             key)

\* one iteration of input_loop that got the byte inp, the key-th byte read
input_byte(d, inp, key) ==
  IF d.esc_state
  THEN esc_byte([d EXCEPT !.esc_code = Append(@, inp), !.key = key], key)
  ELSE IF inp = 27
  THEN Step([d EXCEPT !.esc_state = TRUE, !.key = key], <<>>)
  ELSE Step([d EXCEPT !.tinp = key_event(inp, key), !.key = key],
            <<key_event(inp, key)>>)

\* one iteration of input_loop that found key_queue empty for 10 ms
input_empty(d) ==
  IF d.esc_state
  THEN Step([d EXCEPT !.tinp = InputEvent("esc", <<>>, d.key),
                      !.esc_state = FALSE, !.esc_code = <<>>,
                      !.term_char = <<>>],
            <<InputEvent("esc", <<>>, d.key)>>)
  ELSE Step([d EXCEPT !.esc_state = FALSE, !.esc_code = <<>>,
                      !.term_char = <<>>], <<>>)

\* the commands the editor loop of create_editor edits the pad with
PadCmds == {"bsp", "nl", "up", "down", "left", "right", "home", "end",
            "PgUp", "PgDown", "Start", "End", "char"}

\* one iteration of the editor loop that got the event ev: the pad, the
\* flag editor_esc, and whether the program goes on
loop_exit_ignored(ps, esc, ev) ==
  IF ev.cmd \in PadCmds
  THEN [pads |-> <<edit(ps[1], ev.cmd, ev.msg).p>>, editor_esc |-> esc,
        alive |-> ~edit(ps[1], ev.cmd, ev.msg).raised]
  ELSE [pads |-> ps, editor_esc |-> esc, alive |-> ev.cmd = "exit"]

loop_event(ps, esc, ev) ==
  IF ev.cmd = "exit"
  THEN [pads |-> ps, editor_esc |-> TRUE, alive |-> TRUE]
  ELSE IF ev.cmd \in PadCmds
  THEN [pads |-> <<edit(ps[1], ev.cmd, ev.msg).p>>, editor_esc |-> esc,
        alive |-> ~edit(ps[1], ev.cmd, ev.msg).raised]
  ELSE [pads |-> ps, editor_esc |-> esc, alive |-> FALSE]

(***************************************************************************)
(* The early prototype (src/led.py): LFrame objects linked by parent, rc   *)
(* and lc, and the function frame_geometry.                                *)
(***************************************************************************)
\* LFrame(parent)
LFrame(parent) ==
  [parent |-> parent, rc |-> 0, lc |-> 0, ratio |-> 0, dir |-> "HORIZONTAL",
   x |-> 0, y |-> 0, w |-> 0, h |-> 0]

\* self.split(dir) for the object at position self
LFrame_split(fs, self, dir) ==
  [fs EXCEPT ![self].rc = Len(fs) + 1, ![self].lc = Len(fs) + 2,
             ![self].ratio = RatioSplit, ![self].dir = dir]
    \o <<LFrame(self), LFrame(self)>>

\* self.close() for the object at position self
LFrame_close(fs, self) ==
  IF fs[self].rc # 0 \/ fs[self].lc # 0 THEN fs
  ELSE IF fs[self].parent = 0 THEN fs
  ELSE IF fs[fs[self].parent].rc = self
  THEN [fs EXCEPT ![fs[self].parent].rc = 0, ![self].parent = 0]
  ELSE IF fs[fs[self].parent].lc = self
  THEN [fs EXCEPT ![fs[self].parent].lc = 0, ![self].parent = 0]
  ELSE [fs EXCEPT ![self].parent = 0]

RECURSIVE frame_geometry(_, _, _, _, _, _)
frame_geometry(fs, x, y, w, h, frame) ==
  IF frame = 0 THEN fs
  ELSE IF fs[frame].rc # 0 \/ fs[frame].lc # 0
  THEN IF fs[frame].dir = "VERTICAL"
       THEN frame_geometry(
              frame_geometry(fs, x, y, w, int(h * fs[frame].ratio),
                             fs[frame].rc),
              x, y + int(h * fs[frame].ratio), w,
              int(h * (RatioOne - fs[frame].ratio)), fs[frame].lc)
       ELSE frame_geometry(
              frame_geometry(fs, x, y, int(w * fs[frame].ratio), h,
                             fs[frame].rc),
              x + int(w * fs[frame].ratio), y,
              int(w * (RatioOne - fs[frame].ratio)), h, fs[frame].lc)
  ELSE [fs EXCEPT ![frame].x = 0, ![frame].y = 0, ![frame].w = w,
                  ![frame].h = h]

\* ---- the state machine ----
Set(s) ==
  /\ frames' = s.frames
  /\ fr_id' = s.fr_id
  /\ root_id' = s.root_id
  /\ active_id' = s.active_id
  /\ UNCHANGED <<pads, editor_esc>>
  /\ UNCHANGED <<zero_vars, lframes>>

Call(op, id, direction, ret) ==
  [op |-> op, id |-> id, direction |-> direction, ret |-> ret]

\* Frames.__init__: the root is created without content and is active
InitFrames ==
  LET r == create([frames |-> <<>>, fr_id |-> 0, root_id |-> 0, active_id |-> 0],
                  NoContent)
  IN /\ frames = r.s.frames
     /\ fr_id = r.s.fr_id
     /\ root_id = r.id
     /\ active_id = r.id

\* the input_loop thread before its first byte
InitDecoder ==
  [esc_state |-> FALSE, esc_code |-> <<>>, term_char |-> <<>>,
   tinp |-> NoEvent, key |-> 0]

\* the threads of led_zero before the first key
InitThreads ==
  /\ key_queue = <<>>
  /\ decoder = InitDecoder
  /\ input_queue = <<>>
  /\ alive = TRUE
  /\ dispatched = <<>>
  /\ n_read = 0

Init ==
  /\ InitFrames
  /\ InitThreads
  /\ lframes = <<>>
  /\ pads = <<>>
  /\ editor_esc = FALSE
  /\ last = Call("init", 0, "NONE", TRUE)

\* a call of split while fewer than n splits have succeeded
SplitUpTo(n) ==
  \E id \in Ids, direction \in SplitDirections :
    LET r == split(State, id, direction)
    IN /\ r.s.fr_id <= 1 + 2 * n
       /\ Set(r.s)
       /\ last' = Call("split", id, direction, r.ret)

Split == SplitUpTo(MaxSplits)

SplitFew == SplitUpTo(MaxSplitsFew)

Delete ==
  \E id \in Ids :
    LET r == delete(State, id)
    IN /\ Set(r.s)
       /\ last' = Call("delete", id, "NONE", r.ret)

Size ==
  \E id \in Ids, delta \in Deltas :
    /\ Set(size(State, id, delta))
    /\ last' = Call("size", 0, "NONE", TRUE)

NextFrame ==
  /\ Set(next(State))
  /\ last' = Call("next", 0, "NONE", TRUE)

\* the owner of a leaf attaches content to it (attribute Frame.content)
SetContent ==
  \E i \in 1 .. Len(frames), c \in Contents \ {NoContent} :
    /\ IsLeaf(frames[i])
    /\ frames' = [frames EXCEPT ![i].content = c]
    /\ UNCHANGED <<fr_id, root_id, active_id, pads, editor_esc>>
    /\ UNCHANGED <<zero_vars, lframes>>
    /\ last' = Call("content", 0, "NONE", TRUE)

\* the first split only: a single split frame
SplitOnce == SplitUpTo(1)

SplitTwice == SplitUpTo(2)

\* a call of size with a step of any size, small or large
Resize ==
  \E id \in Ids, delta \in ResizeDeltas :
    /\ Set(size(State, id, delta))
    /\ last' = Call("size", 0, "NONE", TRUE)

Geometry ==
  \E sf \in Surfaces :
    /\ Set(geometry(State, sf[1], sf[2], sf[3], sf[4]))
    /\ last' = Call("geometry", 0, "NONE", TRUE)

\* a call of create() from outside: a new frame, without content, that no
\* frame links to
Create ==
  LET r == create(State, NoContent)
  IN /\ r.s.fr_id <= 1 + 2 * MaxSplitsFew
     /\ Set(r.s)
     /\ last' = Call("create", r.id, "NONE", TRUE)

\* split, delete and next only: the layout tree proper
Next == Split \/ Delete \/ NextFrame

Spec == Init /\ [][Next]_vars

\* the layout tree with resizing
NextSize == SplitFew \/ Delete \/ NextFrame \/ Size

SpecSize == Init /\ [][NextSize]_vars

\* the layout tree with leaves that are given content
NextContent == SplitFew \/ Delete \/ NextFrame \/ SetContent

SpecContent == Init /\ [][NextContent]_vars

\* one split frame that is resized in steps of every size
NextResize == SplitOnce \/ Delete \/ NextFrame \/ Resize

SpecResize == Init /\ [][NextResize]_vars

\* the layout tree with resizing, laid out over a surface
NextGeometry == SplitTwice \/ Size \/ Geometry

SpecGeometry == Init /\ [][NextGeometry]_vars

\* the same with frames that are closed again
NextLayout == SplitTwice \/ Delete \/ Size \/ Geometry
SpecLayout == Init /\ [][NextLayout]_vars

\* ---- the pads ----
\* the line a b c ... of n characters
Line(n) == [i \in 1 .. n |-> 96 + i]

RECURSIVE Chars(_)
Chars(buffer) ==
  IF buffer = <<>> THEN 0 ELSE Len(Head(buffer)) + Chars(Tail(buffer))

\* the buffers a pad is created on: at least one line
Buffers ==
  {b \in UNION {[1 .. k -> {Line(n) : n \in 0 .. MaxChars}] : k \in 1 .. MaxLines} :
     Chars(b) <= MaxChars}

PadCall(op, pad_id, args, raised) ==
  [op |-> op, id |-> pad_id, args |-> args, raised |-> raised]

\* create_editor(buffer, height, width) without borders
InitPad(buffers) ==
  /\ InitFrames
  /\ InitThreads
  /\ lframes = <<>>
  /\ \E buffer \in buffers, height \in Windows, width \in Windows :
       pads = pad_create(<<>>, buffer, height, width, 0, 0).pads
  /\ editor_esc = FALSE
  /\ last = PadCall("create_editor", 0, <<>>, FALSE)

InitEditor == InitPad({<<Line(0)>>})

InitMove == InitPad(Buffers)

\* a call of editor_event; an exception ends the program
EditorEvent ==
  \E pad_id \in PadIds, cmd \in Cmds :
    \E msg \in (IF cmd = "char" THEN Keys ELSE {<<>>}) :
      LET r == editor_event(pads, editor_esc, pad_id, cmd, msg)
      IN /\ ~last.raised
         /\ cmd = "char" => Chars(pads[1].buffer) < MaxChars
         /\ cmd = "nl" => Len(pads[1].buffer) < MaxLines
         /\ pads' = r.pads
         /\ editor_esc' = r.editor_esc
         /\ last' = PadCall(cmd, pad_id, msg, r.raised)
         /\ UNCHANGED <<frames, fr_id, root_id, active_id>>
         /\ UNCHANGED <<zero_vars, lframes>>

\* a call of pad_move with any arguments
PadMove ==
  \E pad_id \in PadIds, ax \in AxisArgs, ay \in AxisArgs :
    LET r == pad_move(pads, pad_id, ax[1], ay[1], ax[2], ay[2])
    IN /\ ~last.raised
       /\ pads' = r.pads
       /\ last' = PadCall("pad_move", pad_id, <<>>, r.raised)
       /\ UNCHANGED <<frames, fr_id, root_id, active_id, editor_esc>>
       /\ UNCHANGED <<zero_vars, lframes>>

NextEditor == EditorEvent

SpecEditor == InitEditor /\ [][NextEditor]_vars

\* pad_move(pad_id, dx=dx) with an id that names no pad
PadMoveOther ==
  \E pad_id \in OtherIds, dx \in {Arg(0 - 1), Arg(1)} :
    /\ ~last.raised
    /\ pads' = pad_move(pads, pad_id, dx, NoArg, NoArg, NoArg).pads
    /\ last' = PadCall("pad_move", pad_id, <<>>,
                       pad_move(pads, pad_id, dx, NoArg, NoArg, NoArg).raised)
    /\ UNCHANGED <<frames, fr_id, root_id, active_id, editor_esc>>
    /\ UNCHANGED <<zero_vars, lframes>>

NextMove == PadMove

SpecMove == InitMove /\ [][NextMove]_vars

\* ---- the editor opened on a text of two lines, long and short, or on a
\* text of many lines of at most one character ----
LongBuffers == [1 .. 2 -> {Line(n) : n \in 0 .. MaxLineLen}]
TallBuffers == UNION {[1 .. k -> {Line(0), Line(1)}] : k \in 1 .. MaxRows}

InitLines ==
  /\ InitFrames
  /\ InitThreads
  /\ lframes = <<>>
  /\ \E buffer \in LongBuffers \cup TallBuffers,
        height \in 1 .. MaxWindow + 1, width \in 1 .. MaxWindow + 1 :
       pads = pad_create(<<>>, buffer, height, width, 0, 0).pads
  /\ editor_esc = FALSE
  /\ last = PadCall("create_editor", 0, <<>>, FALSE)

\* the commands that move the cursor and leave the text alone
MoveCmds == {"up", "down", "left", "right", "home", "end",
             "PgUp", "PgDown", "Start", "End"}

\* editor_event(0, cmd, "") with a command that moves the cursor
CursorEvent ==
  \E cmd \in MoveCmds :
    /\ ~last.raised
    /\ pads' = editor_event(pads, editor_esc, 0, cmd, <<>>).pads
    /\ editor_esc' = editor_event(pads, editor_esc, 0, cmd, <<>>).editor_esc
    /\ last' = PadCall(cmd, 0, <<>>,
                       editor_event(pads, editor_esc, 0, cmd, <<>>).raised)
    /\ UNCHANGED <<frames, fr_id, root_id, active_id>>
    /\ UNCHANGED <<zero_vars, lframes>>

NextLines == CursorEvent
SpecLines == InitLines /\ [][NextLines]_vars

\* ---- the early prototype: split, close and frame_geometry ----
\* run() up to its first split: root_frame = LFrame()
InitProto ==
  /\ InitFrames
  /\ InitThreads
  /\ lframes = <<LFrame(0)>>
  /\ pads = <<>>
  /\ editor_esc = FALSE
  /\ last = PadCall("LFrame", 1, <<>>, FALSE)

ProtoCall(op, self, lf) ==
  /\ lframes' = lf
  /\ last' = PadCall(op, self, <<>>, FALSE)
  /\ UNCHANGED <<frames, fr_id, root_id, active_id, pads, editor_esc>>
  /\ UNCHANGED zero_vars

LSplit ==
  \E self \in 1 .. Len(lframes), dir \in SplitDirections :
    /\ Len(lframes) + 2 <= MaxLFrames
    /\ ProtoCall("split", self, LFrame_split(lframes, self, dir))

LClose ==
  \E self \in 1 .. Len(lframes) :
    ProtoCall("close", self, LFrame_close(lframes, self))

\* frame_geometry(x, y, w, h, root_frame)
LGeometry ==
  \E sf \in Surfaces :
    ProtoCall("frame_geometry", 1,
              frame_geometry(lframes, sf[1], sf[2], sf[3], sf[4], 1))

NextProto == LSplit \/ LClose \/ LGeometry
SpecProto == InitProto /\ [][NextProto]_vars

\* ---- pad_move with its loop taken one iteration at a time ----
\* pads made by pad_create from a height 0 .. MaxWindow and a bottom border
InitLoop ==
  /\ InitFrames
  /\ InitThreads
  /\ lframes = <<>>
  /\ \E buffer \in Buffers, height \in 0 .. MaxWindow, width \in Windows,
        bottom_border \in {0, 1} :
       pads = pad_create(<<>>, buffer, height, width, 0, bottom_border).pads
  /\ editor_esc = FALSE
  /\ last = PadCall("create_editor", 0, <<>>, FALSE)

\* arguments of the pad_move calls that enter the loop
LoopArgs ==
  {NoArg, Arg(0 - 1), Arg(1)} \X {NoArg, Arg(0 - 1), Arg(1)}
    \X {NoArg, Arg(0 - 1)} \X {NoArg, Arg(1)}

\* pad_move(0, dx, dy, x, y) up to its while statement
MoveEnter ==
  \E a \in LoopArgs :
    /\ last.op # "while"
    /\ ~last.raised
    /\ pads' = <<before_loop(pads[1], a[1], a[2], a[3], a[4]).p>>
    /\ last' = IF before_loop(pads[1], a[1], a[2], a[3], a[4]).raised
               THEN PadCall("pad_move", 0, <<>>, TRUE)
               ELSE PadCall("while", 0, <<>>, FALSE)
    /\ UNCHANGED <<frames, fr_id, root_id, active_id, editor_esc>>
    /\ UNCHANGED <<zero_vars, lframes>>

\* one iteration of the while loop; buf_y is counted up to MaxScroll
LoopStep ==
  /\ last.op = "while"
  /\ pads[1].cur_y >= pads[1].height
  /\ pads[1].buf_y < MaxScroll
  /\ pads' = <<scroll_step(pads[1])>>
  /\ UNCHANGED <<frames, fr_id, root_id, active_id, editor_esc, last>>
  /\ UNCHANGED <<zero_vars, lframes>>

\* the end of the while loop and the return of pad_move
LoopEnd ==
  /\ last.op = "while"
  /\ ~(pads[1].cur_y >= pads[1].height)
  /\ last' = PadCall("pad_move", 0, <<>>, FALSE)
  /\ UNCHANGED <<frames, fr_id, root_id, active_id, editor_esc, pads>>
  /\ UNCHANGED <<zero_vars, lframes>>

\* a call that has started goes on running
NextLoop == MoveEnter \/ LoopStep \/ LoopEnd
SpecLoop ==
  InitLoop /\ [][NextLoop]_vars /\ WF_vars(LoopStep) /\ WF_vars(LoopEnd)

\* pad_move calls that name no pad, on an editor with one pad
NextOther == PadMoveOther
SpecOther == InitMove /\ [][NextOther]_vars

\* ---- led_zero: the threads of the terminal editor ----
\* the text __main__ opens the editor with
MainBuffer ==
  <<<<84, 104, 97, 116>>, <<105, 115>>, <<116, 104, 101>>,
    <<105, 110, 105, 116, 105, 97, 108>>, <<108, 111, 110, 103>>,
    <<116, 101, 120, 116>>>>

\* __main__ up to the editor loop: create_editor(buffer, 10, 60, 1, 3, None,
\* True, True), the threads started by TextReplIO
InitZero ==
  /\ InitFrames
  /\ InitThreads
  /\ lframes = <<>>
  /\ pads = pad_create(<<>>, MainBuffer, 10, 60, 6, 1).pads
  /\ editor_esc = FALSE
  /\ last = PadCall("create_editor", 0, <<>>, FALSE)

\* key_reader: one byte read from the terminal and put on key_queue
KeyReader ==
  /\ alive
  /\ n_read < MaxKeys
  /\ \E inp \in Bytes :
       key_queue' = Append(key_queue, [inp |-> inp, key |-> n_read + 1])
  /\ n_read' = n_read + 1
  /\ UNCHANGED lframes
  /\ UNCHANGED <<frames, fr_id, root_id, active_id, pads, editor_esc, last,
                 decoder, input_queue, alive, dispatched>>

\* input_loop: one iteration that gets a byte
InputLoop ==
  /\ alive
  /\ key_queue # <<>>
  /\ decoder' = input_byte(decoder, Head(key_queue).inp,
                           Head(key_queue).key).d
  /\ input_queue' = input_queue \o input_byte(decoder, Head(key_queue).inp,
                                              Head(key_queue).key).out
  /\ key_queue' = Tail(key_queue)
  /\ UNCHANGED lframes
  /\ UNCHANGED <<frames, fr_id, root_id, active_id, pads, editor_esc, last,
                 alive, dispatched, n_read>>

\* input_loop: one iteration that times out on the empty key_queue and has
\* something to reset
InputEmpty ==
  /\ alive
  /\ key_queue = <<>>
  /\ input_empty(decoder).d # decoder
  /\ decoder' = input_empty(decoder).d
  /\ input_queue' = input_queue \o input_empty(decoder).out
  /\ UNCHANGED lframes
  /\ UNCHANGED <<frames, fr_id, root_id, active_id, pads, editor_esc, last,
                 key_queue, alive, dispatched, n_read>>

\* create_editor: one iteration of the editor loop that gets an event
EditorLoop ==
  /\ alive
  /\ editor_esc = FALSE
  /\ input_queue # <<>>
  /\ pads' = loop_event(pads, editor_esc, Head(input_queue)).pads
  /\ editor_esc' = loop_event(pads, editor_esc, Head(input_queue)).editor_esc
  /\ alive' = loop_event(pads, editor_esc, Head(input_queue)).alive
  /\ input_queue' = Tail(input_queue)
  /\ dispatched' = Append(dispatched, Head(input_queue).key)
  /\ last' = PadCall(Head(input_queue).cmd, 0, Head(input_queue).msg,
                     ~alive')
  /\ UNCHANGED lframes
  /\ UNCHANGED <<frames, fr_id, root_id, active_id, key_queue, decoder,
                 n_read>>

\* __main__ after create_editor returned: repl.repl.exit() and the end of
\* the program
Exit ==
  /\ alive
  /\ editor_esc
  /\ alive' = FALSE
  /\ last' = PadCall("exit", 0, <<>>, FALSE)
  /\ UNCHANGED lframes
  /\ UNCHANGED <<frames, fr_id, root_id, active_id, pads, editor_esc,
                 key_queue, decoder, input_queue, dispatched, n_read>>

NextZero == KeyReader \/ InputLoop \/ InputEmpty \/ EditorLoop \/ Exit
SpecZero == InitZero /\ [][NextZero]_vars

\* the frame store with frames created from outside as well
NextCreate == SplitFew \/ Delete \/ NextFrame \/ Create

SpecCreate == Init /\ [][NextCreate]_vars

\* ---- vocabulary of the properties ----
StoreIds(fs) == {fs[i].id : i \in 1 .. Len(fs)}

FrameOf(fs, id) == fs[CHOOSE i \in 1 .. Len(fs) : fs[i].id = id]

ChildIds(fr) == {fr.c_lu, fr.c_rd} \ {0}

LeafIds(fs) == {fs[i].id : i \in {j \in 1 .. Len(fs) : ChildIds(fs[j]) = {}}}

InnerIds(fs) == StoreIds(fs) \ LeafIds(fs)

ParentIds(fs, id) == {fs[i].id : i \in {j \in 1 .. Len(fs) : id \in ChildIds(fs[j])}}

\* the ids reachable from the ids of set through child links
RECURSIVE Reach(_, _)
Reach(fs, set) ==
  LET more == set \cup UNION {ChildIds(FrameOf(fs, id)) : id \in set \cap StoreIds(fs)}
  IN IF more = set THEN set ELSE Reach(fs, more)

\* C1: after any sequence of split and delete calls every frame of the store
\* has no child or two children that are both in the store, there is one
\* leaf more than there are internal frames, root_id is the only frame
\* without a parent, and every frame is reachable from root_id.
C1_TreeShape ==
  /\ Cardinality(StoreIds(frames)) = Len(frames)
  /\ \A i \in 1 .. Len(frames) :
       \/ frames[i].c_lu = 0 /\ frames[i].c_rd = 0
       \/ /\ frames[i].c_lu # 0 /\ frames[i].c_rd # 0
          /\ frames[i].c_lu # frames[i].c_rd
          /\ {frames[i].c_lu, frames[i].c_rd} \subseteq StoreIds(frames)
  /\ Cardinality(LeafIds(frames)) = Cardinality(InnerIds(frames)) + 1
  /\ {id \in StoreIds(frames) : ParentIds(frames, id) = {}} = {root_id}
  /\ Reach(frames, {root_id}) = StoreIds(frames)

\* a delete has just succeeded in a tree that still has two internal frames
C1_Witness ==
  /\ last.op = "delete" /\ last.ret
  /\ Cardinality(InnerIds(frames)) >= 2

\* C2: after any sequence of split, delete, next and size calls active_id
\* names exactly one frame of the store, and that frame has no children.
C2_ActiveLeaf ==
  /\ Cardinality({i \in 1 .. Len(frames) : frames[i].id = active_id}) = 1
  /\ active_id \in LeafIds(frames)

\* the active frame has just been deleted from a tree that keeps more than
\* one leaf, after a resize changed a ratio
C2_Witness ==
  /\ last.op = "delete" /\ last.ret /\ last.id = 0
  /\ Cardinality(LeafIds(frames)) >= 2
  /\ \E i \in 1 .. Len(frames) : frames[i].ratio \notin {0, RatioSplit}

\* the frame a call addresses: id 0 stands for the active frame
Target(id0) == IF id0 = 0 THEN active_id ELSE id0

\* C3: split returns False and changes neither the store (frames, links,
\* contents) nor the id counter, root_id or active_id when the id names no
\* frame of the store or a frame that has children.
C3_SplitRefused ==
  [][(/\ last'.op = "split"
      /\ \/ Target(last'.id) \notin StoreIds(frames)
         \/ Target(last'.id) \in InnerIds(frames))
     => (/\ ~last'.ret
         /\ UNCHANGED <<frames, fr_id, root_id, active_id>>)]_vars

\* a split of an internal frame, named by its id, has just been refused
C3_Witness ==
  /\ last.op = "split" /\ ~last.ret
  /\ last.id \in InnerIds(frames)

\* C4 as stated: a successful split of a frame that holds content leaves the
\* content with the left child only.
C4_LeftOnly ==
  [][(/\ last'.op = "split" /\ last'.ret
      /\ FrameOf(frames, Target(last'.id)).content # NoContent)
     => LET c == FrameOf(frames, Target(last'.id)).content
            fr == FrameOf(frames', Target(last'.id))
        IN /\ FrameOf(frames', fr.c_lu).content = c
           /\ FrameOf(frames', fr.c_rd).content = NoContent
           /\ fr.content = NoContent]_vars

\* C4 amended: a successful split of a frame that holds content gives the
\* content to both new children; the split frame itself holds none afterwards.
C4_BothChildren ==
  [][(/\ last'.op = "split" /\ last'.ret
      /\ FrameOf(frames, Target(last'.id)).content # NoContent)
     => LET c == FrameOf(frames, Target(last'.id)).content
            fr == FrameOf(frames', Target(last'.id))
        IN /\ FrameOf(frames', fr.c_lu).content = c
           /\ FrameOf(frames', fr.c_rd).content = c
           /\ fr.content = NoContent]_vars

\* a frame holding content has just been split: its two children are the
\* newest frames and hold content
C4_Witness ==
  /\ last.op = "split" /\ last.ret
  /\ \E i \in 1 .. Len(frames) :
       /\ frames[i].c_rd = fr_id
       /\ FrameOf(frames, frames[i].c_lu).content = "c2"
       /\ FrameOf(frames, frames[i].c_rd).content = "c2"

\* C5: a successful split adds exactly two frames to the store, both leaves,
\* as left and right child of the target (the active frame for id 0), records
\* the given direction and ratio 0.5 on the target, leaves every other frame
\* and root_id as they were, and moves active_id to the left child exactly
\* when the target was the active frame.
C5_SplitEffect ==
  [][(last'.op = "split" /\ last'.ret)
     => LET t == Target(last'.id)
            fr == FrameOf(frames', t)
        IN /\ t \in LeafIds(frames)
           /\ Len(frames') = Len(frames) + 2
           /\ fr.c_lu # fr.c_rd
           /\ {fr.c_lu, fr.c_rd} \cap StoreIds(frames) = {}
           /\ StoreIds(frames') = StoreIds(frames) \cup {fr.c_lu, fr.c_rd}
           /\ {fr.c_lu, fr.c_rd} \subseteq LeafIds(frames')
           /\ fr.direction = last'.direction
           /\ fr.ratio = RatioSplit
           /\ \A id \in StoreIds(frames) \ {t} :
                FrameOf(frames', id) = FrameOf(frames, id)
           /\ root_id' = root_id
           /\ active_id' = IF t = active_id THEN fr.c_lu ELSE active_id]_vars

\* the active frame, addressed by id 0, has just been split vertically in a
\* tree that already had an internal frame
C5_Witness ==
  /\ last.op = "split" /\ last.ret /\ last.id = 0
  /\ last.direction = "VERTICAL"
  /\ Cardinality(InnerIds(frames)) >= 2
  /\ \E i \in 1 .. Len(frames) : frames[i].c_lu = active_id /\ frames[i].c_rd = fr_id

\* C6: delete returns False and changes neither the store nor root_id or
\* active_id when the id is the root, names a frame that has children, or
\* names no frame of the store.
C6_DeleteRefused ==
  [][(/\ last'.op = "delete"
      /\ \/ Target(last'.id) = root_id
         \/ Target(last'.id) \in InnerIds(frames)
         \/ Target(last'.id) \notin StoreIds(frames))
     => (/\ ~last'.ret
         /\ UNCHANGED <<frames, fr_id, root_id, active_id>>)]_vars

\* a delete of an internal frame that is not the root has just been refused
C6_Witness ==
  /\ last.op = "delete" /\ ~last.ret
  /\ last.id \in InnerIds(frames)
  /\ last.id # root_id

\* C7: a successful delete removes the target leaf and its parent and nothing
\* else; the sibling takes the parent's place (the same link of the
\* grandparent, or root_id when the parent was the root); every other frame,
\* and the other link, direction and ratio of the grandparent, stay as they
\* were; no frame is left with exactly one child.
C7_DeleteEffect ==
  [][(last'.op = "delete" /\ last'.ret)
     => LET t == Target(last'.id) IN
        /\ t \in LeafIds(frames)
        /\ t # root_id
        /\ Cardinality(ParentIds(frames, t)) = 1
        /\ LET p == CHOOSE x \in ParentIds(frames, t) : TRUE
               p_fr == FrameOf(frames, p)
               sb == IF p_fr.c_lu = t THEN p_fr.c_rd ELSE p_fr.c_lu
           IN /\ StoreIds(frames') = StoreIds(frames) \ {t, p}
              /\ Len(frames') = Len(frames) - 2
              /\ IF p = root_id
                 THEN /\ root_id' = sb
                      /\ \A id \in StoreIds(frames') :
                           FrameOf(frames', id) = FrameOf(frames, id)
                 ELSE /\ root_id' = root_id
                      /\ Cardinality(ParentIds(frames, p)) = 1
                      /\ LET g == CHOOSE x \in ParentIds(frames, p) : TRUE
                             g_fr == FrameOf(frames, g)
                         IN /\ FrameOf(frames', g) =
                                 [g_fr EXCEPT
                                    !.c_lu = IF g_fr.c_lu = p THEN sb ELSE @,
                                    !.c_rd = IF g_fr.c_rd = p THEN sb ELSE @]
                            /\ \A id \in StoreIds(frames') \ {g} :
                                 FrameOf(frames', id) = FrameOf(frames, id)
        /\ \A i \in 1 .. Len(frames') :
             (frames'[i].c_lu = 0) <=> (frames'[i].c_rd = 0)
        /\ fr_id' = fr_id]_vars

\* a leaf whose parent was the right child of the root has just been deleted,
\* and the root keeps a ratio that a resize had changed
C7_Witness ==
  /\ last.op = "delete" /\ last.ret
  /\ root_id = 1
  /\ frames[1].id = 1 /\ frames[1].c_lu = 2 /\ frames[1].c_rd \in {4, 5}
  /\ frames[1].ratio # RatioSplit

\* the ids of the leaf list of win_frames
WinIds(fs) == [i \in 1 .. Len(win_frames_wfr(fs)) |-> win_frames_wfr(fs)[i].id]

\* the leaves below frame id in pre-order, left child before right child
RECURSIVE PreOrderLeaves(_, _)
PreOrderLeaves(fs, id) ==
  LET fr == FrameOf(fs, id)
  IN IF fr.c_lu # 0 /\ fr.c_rd # 0
     THEN PreOrderLeaves(fs, fr.c_lu) \o PreOrderLeaves(fs, fr.c_rd)
     ELSE <<id>>

\* the entry that follows x in seq, the first entry after the last one
Follower(seq, x) ==
  LET k == CHOOSE i \in 1 .. Len(seq) : seq[i] = x
  IN seq[(k % Len(seq)) + 1]

\* C8 as stated: when delete closes the active frame, active_id becomes the
\* leaf that followed the closed one, wrapping to the first; the order is
\* read either as the leaf list of win_frames or as the pre-order of the tree.
C8_FollowingLeaf ==
  [][(last'.op = "delete" /\ last'.ret /\ Target(last'.id) = active_id)
     => \/ active_id' = Follower(WinIds(frames), active_id)
        \/ active_id' = Follower(PreOrderLeaves(frames, root_id), active_id)]_vars

\* C9 as stated: the leaf list of win_frames is the pre-order of the leaves
\* of the tree from root_id.
C9_PreOrder == WinIds(frames) = PreOrderLeaves(frames, root_id)

\* C9 amended: win_frames lists the leaves of the tree, each once, in the
\* order of the store, which is the order of creation (ascending id).
C9_StoreOrder ==
  LET w == WinIds(frames)
      t == PreOrderLeaves(frames, root_id)
  IN /\ \A i \in 1 .. Len(w), j \in 1 .. Len(w) : i < j => w[i] < w[j]
     /\ {w[i] : i \in 1 .. Len(w)} = {t[i] : i \in 1 .. Len(t)}
     /\ Len(w) = Len(t)

\* a tree of at least three leaves in which the store order of the leaves is
\* not their pre-order
C9_Witness ==
  /\ Len(WinIds(frames)) >= 3
  /\ WinIds(frames) # PreOrderLeaves(frames, root_id)

\* next applied n times
RECURSIVE NextN(_, _)
NextN(s, n) == IF n = 0 THEN s ELSE NextN(next(s), n - 1)

\* C10: next moves active_id to the entry that follows it in the leaf list,
\* from the last entry to the first, and changes nothing else; as many calls
\* of next as there are leaves bring active_id back to where it was.
C10_NextCycles ==
  /\ [](NextN(State, Len(WinIds(frames))).active_id = active_id)
  /\ [][(last'.op = "next")
        => /\ active_id' = Follower(WinIds(frames), active_id)
           /\ UNCHANGED <<frames, fr_id, root_id>>]_vars

\* next has just wrapped from the last of at least three leaves to the first
C10_Witness ==
  /\ last.op = "next"
  /\ Len(WinIds(frames)) >= 3
  /\ active_id = WinIds(frames)[1]

\* frame fr with the id a replaced by the id b, in its own id and its links
Renamed(fr, a, b) ==
  [fr EXCEPT !.id = IF @ = a THEN b ELSE @,
             !.c_lu = IF @ = a THEN b ELSE @,
             !.c_rd = IF @ = a THEN b ELSE @]

\* state s2 is state s0 with leaf l replaced, in the same place, by leaf v
SameTreeBut(s0, s2, l, v) ==
  /\ Len(s2.frames) = Len(s0.frames)
  /\ {Renamed(s2.frames[i], v, l) : i \in 1 .. Len(s2.frames)} =
       {s0.frames[i] : i \in 1 .. Len(s0.frames)}
  /\ (IF s2.root_id = v THEN l ELSE s2.root_id) = s0.root_id

\* split of leaf l followed at once by delete of child number side (1 left,
\* 2 right) succeeds twice and leaves the tree of s0 with the other child in
\* the place of l
RoundTrip(s0, l, direction, side) ==
  LET r1 == split(s0, l, direction)
      fr == FrameOf(r1.s.frames, l)
      gone == IF side = 1 THEN fr.c_lu ELSE fr.c_rd
      kept == IF side = 1 THEN fr.c_rd ELSE fr.c_lu
      r2 == delete(r1.s, gone)
  IN /\ r1.ret
     /\ r2.ret
     /\ SameTreeBut(s0, r2.s, l, kept)

\* C11: from every reachable tree and for every leaf L, split(L) followed at
\* once by delete of either new child gives the tree as it was before the
\* split, with one leaf in L's place that holds L's content and with every
\* other frame, link, direction and ratio unchanged.
C11_SplitDeleteRoundTrip ==
  \A l \in LeafIds(frames), direction \in SplitDirections, side \in {1, 2} :
    RoundTrip(State, l, direction, side)

\* the left child of the newest pair has just been deleted and its sibling,
\* holding the content of the split frame, stands in the tree
C11_Witness ==
  /\ last.op = "delete" /\ last.ret
  /\ last.id = fr_id - 1
  /\ fr_id \in LeafIds(frames)
  /\ FrameOf(frames, fr_id).content = "c2"
  /\ Cardinality(InnerIds(frames)) >= 1

\* C12: across any sequence of create, split and delete every id issued is
\* larger than every id issued before it: the ids of the store are distinct,
\* never 0, never above the counter and ascending in store order, the counter
\* never goes back, and the ids a step adds to the store are exactly the
\* values the counter passed in that step, so no id of a deleted frame comes
\* back.
C12_IdsIncrease ==
  /\ [](/\ StoreIds(frames) \subseteq 1 .. fr_id
        /\ Cardinality(StoreIds(frames)) = Len(frames)
        /\ \A i \in 1 .. Len(frames), j \in 1 .. Len(frames) :
             i < j => frames[i].id < frames[j].id)
  /\ [][/\ fr_id' >= fr_id
        /\ StoreIds(frames') \ StoreIds(frames) = (fr_id + 1) .. fr_id']_vars

\* create has just issued an id after two frames had been deleted
C12_Witness ==
  /\ last.op = "create"
  /\ last.id = fr_id
  /\ fr_id \in StoreIds(frames)
  /\ Len(frames) <= fr_id - 2

\* C13: whatever the sequence of size calls (any id, any positive or negative
\* delta, any number of calls), the ratio of every internal frame stays
\* within [0.2, 0.8].
C13_RatioInRange ==
  \A i \in 1 .. Len(frames) :
    ~IsLeaf(frames[i]) =>
      (RatioLow <= frames[i].ratio /\ frames[i].ratio <= RatioHigh)

\* repeated size calls have brought a ratio next to the upper limit
C13_Witness ==
  /\ last.op = "size"
  /\ \E i \in 1 .. Len(frames) :
       ~IsLeaf(frames[i]) /\ frames[i].ratio = RatioHigh - 1

\* ---- the layout over a surface ----
Rect(fr) == <<fr.x, fr.y, fr.wx, fr.hy>>

\* q is the integer part of the non-negative ratio product n / RatioOne
IsFloor(q, n) == q * RatioOne <= n /\ n < (q + 1) * RatioOne

\* C14: geometry(x, y, w, h) gives the root the rectangle (x, y, w, h), the
\* only rectangle of a tree never split; an internal Horizontal frame with
\* rectangle (x, y, w, h) and ratio r gives its left child
\* (x, y, floor(w*r), h) and puts its right child at (x + floor(w*r), y), a
\* Vertical frame does the same on y and the height; ratio 0.5 on
\* (0, 0, 800, 600) gives the children (0, 0, 400, 600) and (400, 0, 400, 600)
C14_Geometry ==
  \A sf \in Surfaces :
    LET fs == geometry(State, sf[1], sf[2], sf[3], sf[4]).frames
    IN /\ Rect(FrameOf(fs, root_id)) = sf
       /\ Len(fs) = 1 => Rect(fs[1]) = sf
       /\ \A i \in 1 .. Len(fs) :
            ~IsLeaf(fs[i]) =>
              LET p == fs[i]
                  l == FrameOf(fs, p.c_lu)
                  r == FrameOf(fs, p.c_rd)
              IN /\ p.direction = "HORIZONTAL" =>
                      /\ l.x = p.x /\ l.y = p.y /\ l.hy = p.hy
                      /\ IsFloor(l.wx, p.wx * p.ratio)
                      /\ r.x = p.x + l.wx /\ r.y = p.y
                 /\ p.direction = "VERTICAL" =>
                      /\ l.x = p.x /\ l.y = p.y /\ l.wx = p.wx
                      /\ IsFloor(l.hy, p.hy * p.ratio)
                      /\ r.x = p.x /\ r.y = p.y + l.hy
                 /\ ( /\ Rect(p) = <<0, 0, 800, 600>>
                      /\ p.ratio = RatioSplit
                      /\ p.direction = "HORIZONTAL" ) =>
                      /\ Rect(l) = <<0, 0, 400, 600>>
                      /\ Rect(r) = <<400, 0, 400, 600>>

\* geometry has just laid out a twice split tree: the root halves
\* (0, 0, 800, 600) and a resized Vertical frame lies below it
C14_Witness ==
  /\ last.op = "geometry"
  /\ LET p == FrameOf(frames, root_id)
     IN /\ Rect(p) = <<0, 0, 800, 600>>
        /\ p.direction = "HORIZONTAL" /\ p.ratio = RatioSplit
        /\ Rect(FrameOf(frames, p.c_lu)) = <<0, 0, 400, 600>>
        /\ Rect(FrameOf(frames, p.c_rd)) = <<400, 0, 400, 600>>
  /\ \E i \in 1 .. Len(frames) :
       /\ frames[i].direction = "VERTICAL"
       /\ frames[i].ratio = RatioSplit + MaxDelta
       /\ frames[i].wx = 400
       /\ FrameOf(frames, frames[i].c_rd).y = frames[i].y
                                             + FrameOf(frames, frames[i].c_lu).hy
       /\ FrameOf(frames, frames[i].c_lu).hy > 0

\* C15: after geometry the extents of the two children of every internal
\* frame along the split axis (widths for Horizontal, heights for Vertical)
\* sum exactly to the extent of the parent
C15_ExtentsSum ==
  \A sf \in Surfaces :
    LET fs == geometry(State, sf[1], sf[2], sf[3], sf[4]).frames
    IN \A i \in 1 .. Len(fs) :
         ~IsLeaf(fs[i]) =>
           LET p == fs[i]
               l == FrameOf(fs, p.c_lu)
               r == FrameOf(fs, p.c_rd)
           IN /\ p.direction = "HORIZONTAL" => l.wx + r.wx = p.wx
              /\ p.direction = "VERTICAL" => l.hy + r.hy = p.hy

\* ---- the window of a pad ----
\* the cursor and the origin of pad p lie in the window and in the text
Viewport(p) ==
  /\ 0 <= p.cur_x /\ p.cur_x <= p.width
  /\ 0 <= p.cur_y /\ p.cur_y < p.height
  /\ p.buf_x >= 0 /\ p.buf_y >= 0
  /\ p.buf_y + p.cur_y < Len(p.buffer)
  /\ p.buf_x + p.cur_x <= Len(p.buffer[p.buf_y + p.cur_y + 1])

\* C16: after any sequence of editor commands on a pad of width >= 1 and
\* height >= 1 that starts at origin (0,0), cursor (0,0) with a non-empty
\* buffer, no command raises and 0 <= cur_x <= width, 0 <= cur_y < height,
\* buf_x >= 0, buf_y >= 0, buf_y + cur_y < len(buffer) and buf_x + cur_x is
\* at most the length of the line at row buf_y + cur_y
C16_Viewport ==
  /\ ~last.raised
  /\ Len(pads) = 1
  /\ Len(pads[1].buffer) >= 1
  /\ Viewport(pads[1])

\* the cursor stands at the end of the second line, behind the window in
\* both directions: the origin has moved right and down
C16_Witness ==
  /\ last.op \in Cmds
  /\ pads[1].buf_x > 0 /\ pads[1].buf_y > 0
  /\ pads[1].cur_x = pads[1].width - 1
  /\ pads[1].cur_y = pads[1].height - 1
  /\ pads[1].buf_y + pads[1].cur_y = MaxLines - 1
  /\ Chars(pads[1].buffer) = MaxChars

\* C17: on return from every pad_move call, whatever its arguments dx, dy,
\* x, y, on a pad of width >= 1 and height >= 1 whose window was in order on
\* entry, the cursor is strictly inside the window: cur_x < width and
\* cur_y < height
C17_CursorInside ==
  [][(/\ last'.op = "pad_move" /\ ~last'.raised
      /\ Viewport(pads[1]))
     => (/\ pads'[1].cur_x < pads'[1].width
         /\ pads'[1].cur_y < pads'[1].height)]_vars

\* the pad that create_editor makes of the single line abc with width 2
PadAbc == pad_create(<<>>, <<Line(3)>>, 1, 2, 0, 0).pads[1]

\* C18 as stated: pad_move(x=-1) on a line of length L in a pad of width W
\* returns with buf_x = max(L - W, 0) and cur_x = L - buf_x, and on the
\* single line abc with W = 2 with buf_x = 1 and cur_x = 2
C18_EndOfLine ==
  /\ [](LET q == move(PadAbc, NoArg, NoArg, Arg(0 - 1), NoArg).p
        IN q.buf_x = 1 /\ q.cur_x = 2)
  /\ [][last'.op = "end" =>
          LET p == pads[1]
              q == pads'[1]
              L == Len(p.buffer[p.buf_y + p.cur_y + 1])
              W == p.width
          IN /\ q.buf_x = (IF L - W > 0 THEN L - W ELSE 0)
             /\ q.cur_x = L - q.buf_x]_vars

\* C18, amended: pad_move(x=-1) on a line of length L in a pad of width W
\* returns on the same row with the absolute column L; with buf_x = 0 and
\* cur_x = L when L < W, else with buf_x = L - W + 1 and cur_x = W - 1; on
\* the single line abc with W = 2 with buf_x = 2 and cur_x = 1
C18_EndOfLineInside ==
  /\ [](LET q == move(PadAbc, NoArg, NoArg, Arg(0 - 1), NoArg).p
        IN q.buf_x = 2 /\ q.cur_x = 1)
  /\ [][last'.op = "end" =>
          LET p == pads[1]
              q == pads'[1]
              L == Len(p.buffer[p.buf_y + p.cur_y + 1])
              W == p.width
          IN /\ ~last'.raised
             /\ q.buffer = p.buffer /\ q.buf_y = p.buf_y /\ q.cur_y = p.cur_y
             /\ q.buf_x + q.cur_x = L
             /\ L < W => (q.buf_x = 0 /\ q.cur_x = L)
             /\ L >= W => (q.buf_x = L - W + 1 /\ q.cur_x = W - 1)]_vars

\* the end command has moved the cursor to the end of a line longer than
\* the window from a column before it
C18_Witness ==
  /\ last.op = "end"
  /\ Len(pads[1].buffer[pads[1].buf_y + pads[1].cur_y + 1]) = MaxChars
  /\ pads[1].width = 2
  /\ pads[1].buf_x = MaxChars - 1 /\ pads[1].cur_x = 1

\* C19: pad_move(y=-1) on a pad with a non-empty buffer returns with the
\* absolute row buf_y + cur_y on the last line, len(buffer) - 1, the origin
\* snapped so that this line is the last visible row
C19_EndOfBuffer ==
  (Viewport(pads[1]) /\ Len(pads[1].buffer) >= 1) =>
    LET r == move(pads[1], NoArg, NoArg, NoArg, Arg(0 - 1))
        len_y == Len(pads[1].buffer)
    IN /\ ~r.raised
       /\ r.p.buf_y + r.p.cur_y = len_y - 1
       /\ r.p.buf_y = (IF len_y - r.p.height > 0 THEN len_y - r.p.height
                       ELSE 0)

\* C20: the char command with a character below 0x20 leaves buffer, origin
\* and cursor unchanged; with a printable character c it inserts c into the
\* current line at the absolute cursor column buf_x + cur_x, leaves every
\* other line unchanged and moves the absolute cursor column on by exactly
\* one on the same row
C20_Char ==
  [][last'.op = "char" =>
       LET p == pads[1]
           q == pads'[1]
           c == last'.args
           row == p.buf_y + p.cur_y
           col == p.buf_x + p.cur_x
           line == p.buffer[row + 1]
       IN /\ ~last'.raised
          /\ c[1] < 32 => q = p
          /\ c[1] >= 32 =>
               /\ Len(q.buffer) = Len(p.buffer)
               /\ Len(q.buffer[row + 1]) = Len(line) + 1
               /\ \A i \in 1 .. Len(line) + 1 :
                    q.buffer[row + 1][i] =
                      (IF i <= col THEN line[i]
                       ELSE IF i = col + 1 THEN c[1] ELSE line[i - 1])
               /\ \A k \in 1 .. Len(p.buffer) :
                    k # row + 1 => q.buffer[k] = p.buffer[k]
               /\ q.buf_x + q.cur_x = col + 1
               /\ q.buf_y + q.cur_y = row
               /\ q.width = p.width /\ q.height = p.height]_vars

\* the key b has just been typed between two a on the second line, the
\* line shown from a column right of the first
C20_Witness ==
  /\ last.op = "char" /\ last.args = <<98>>
  /\ Len(pads[1].buffer) = 2
  /\ pads[1].buffer[2] = <<97, 98, 97>>
  /\ pads[1].buf_y + pads[1].cur_y = 1
  /\ pads[1].buf_x + pads[1].cur_x = 2
  /\ pads[1].buf_x > 0

\* ---- the text of a pad ----
\* the absolute position of the cursor of pad p
Row(p) == p.buf_y + p.cur_y
Col(p) == p.buf_x + p.cur_x

\* the pad of the one line ab, height h and width w, the cursor moved to
\* column 1
PadAb(h, w) ==
  move(pad_create(<<>>, <<Line(2)>>, h, w, 0, 0).pads[1],
       Arg(1), NoArg, NoArg, NoArg).p

\* C21: the nl command at absolute position (row r, column c) replaces line
\* r by its first c characters, inserts the rest of the line as a new line
\* r+1 (appended when r was the last line), leaves all other lines unchanged
\* and in order, and leaves the cursor at absolute row r+1, column 0; the
\* one line ab with the cursor at column 1 becomes the lines a and b with
\* the cursor at row 1, column 0
C21_NewLine ==
  /\ LET p == pads[1]
         r == Row(p)
         c == Col(p)
         line == p.buffer[r + 1]
         res == edit(p, "nl", <<>>)
         q == res.p
     IN /\ ~res.raised
        /\ Len(q.buffer) = Len(p.buffer) + 1
        /\ q.buffer[r + 1] = SubSeq(line, 1, c)
        /\ q.buffer[r + 2] = SubSeq(line, c + 1, Len(line))
        /\ \A k \in 1 .. Len(p.buffer) :
             /\ k < r + 1 => q.buffer[k] = p.buffer[k]
             /\ k > r + 1 => q.buffer[k + 1] = p.buffer[k]
        /\ Row(q) = r + 1 /\ Col(q) = 0
  /\ \A h \in Windows, w \in Windows :
       LET q == edit(PadAb(h, w), "nl", <<>>).p
       IN /\ Col(PadAb(h, w)) = 1
          /\ q.buffer = <<<<97>>, <<98>>>>
          /\ Row(q) = 1 /\ Col(q) = 0

\* nl has just cut the line ab behind the a: the lines a and b, the cursor
\* on row 1, column 0
C21_Witness ==
  /\ last.op = "nl"
  /\ pads[1].buffer = <<<<97>>, <<98>>>>
  /\ Row(pads[1]) = 1 /\ Col(pads[1]) = 0

\* C22: the bsp command removes the element before the cursor: at absolute
\* column c > 0 it deletes the character at column c-1 of the current line
\* and the column becomes c-1; at column 0 of row r > 0 it appends line r to
\* line r-1, removes line r and leaves the cursor on row r-1 at the former
\* length of line r-1; all other lines are unchanged
C22_Backspace ==
  LET p == pads[1]
      r == Row(p)
      c == Col(p)
      line == p.buffer[r + 1]
      res == edit(p, "bsp", <<>>)
      q == res.p
  IN /\ ~res.raised
     /\ c > 0 =>
          /\ Len(q.buffer) = Len(p.buffer)
          /\ q.buffer[r + 1] = SubSeq(line, 1, c - 1)
                               \o SubSeq(line, c + 1, Len(line))
          /\ \A k \in 1 .. Len(p.buffer) :
               k # r + 1 => q.buffer[k] = p.buffer[k]
          /\ Row(q) = r /\ Col(q) = c - 1
     /\ (c = 0 /\ r > 0) =>
          /\ Len(q.buffer) = Len(p.buffer) - 1
          /\ q.buffer[r] = p.buffer[r] \o line
          /\ \A k \in 1 .. Len(p.buffer) :
               /\ k < r => q.buffer[k] = p.buffer[k]
               /\ k > r + 1 => q.buffer[k - 1] = p.buffer[k]
          /\ Row(q) = r - 1 /\ Col(q) = Len(p.buffer[r])

\* bsp has just joined the line b to the line a: the cursor stands between
\* them
C22_Witness ==
  /\ last.op = "bsp"
  /\ pads[1].buffer = <<<<97, 98>>>>
  /\ Row(pads[1]) = 0 /\ Col(pads[1]) = 1
  /\ pads[1].width = 1

\* C23: the bsp command at absolute position (row 0, column 0) changes
\* neither buffer, origin nor cursor, and after any sequence of editor
\* commands from a non-empty buffer the buffer holds at least one line
C23_FirstPosition ==
  /\ [](/\ Len(pads[1].buffer) >= 1
        /\ (Row(pads[1]) = 0 /\ Col(pads[1]) = 0) =>
             edit(pads[1], "bsp", <<>>) = Ok(pads[1], FALSE))
  /\ [][(last'.op = "bsp" /\ Row(pads[1]) = 0 /\ Col(pads[1]) = 0)
        => (pads' = pads /\ ~last'.raised)]_vars

\* bsp has been given at the first position of a buffer of two lines, the
\* first of them empty
C23_Witness ==
  /\ last.op = "bsp"
  /\ Row(pads[1]) = 0 /\ Col(pads[1]) = 0
  /\ Len(pads[1].buffer) = 2
  /\ pads[1].buffer[1] = <<>>
  /\ Len(pads[1].buffer[2]) = MaxChars

\* the char command for each character of s, one after the other
RECURSIVE Typed(_, _)
Typed(r, s) ==
  IF r.raised \/ s = <<>> THEN r
  ELSE Typed(edit(r.p, "char", <<Head(s)>>), Tail(s))

\* the bsp command n times
RECURSIVE Erased(_, _)
Erased(r, n) ==
  IF r.raised \/ n = 0 THEN r ELSE Erased(edit(r.p, "bsp", <<>>), n - 1)

\* C24: from any reachable pad state, the char command for each character
\* of a string of printable characters and then the bsp command that many
\* times restores the buffer and returns the cursor to its absolute position
C24_TypeErase ==
  \A s \in Strings :
    LET p == pads[1]
        res == Erased(Typed(Ok(p, FALSE), s), Len(s))
    IN /\ ~res.raised
       /\ res.p.buffer = p.buffer
       /\ Row(res.p) = Row(p) /\ Col(res.p) = Col(p)

\* two characters have been typed and erased again at the end of the second
\* line, in a window one column wide
C24_Witness ==
  /\ last.op = "bsp"
  /\ pads[1].width = 1
  /\ pads[1].buffer = <<<<97>>, <<98>>>>
  /\ Row(pads[1]) = 1 /\ Col(pads[1]) = 1

\* C25: the exit command sets the flag editor_esc and changes no pad: both
\* editor_event of src/py/led.py and the editor loop of led_zero handle it so;
\* once the flag is set the loop of led_zero dispatches nothing more, the
\* events queued behind exit stay on input_queue and the pad stays as it is.
C25_Exit ==
  /\ [](editor_event(pads, editor_esc, 0, "exit", <<>>)
          = [pads |-> pads, editor_esc |-> TRUE, raised |-> FALSE])
  /\ [][/\ (dispatched' # dispatched /\ last'.op = "exit")
             => (editor_esc' /\ pads' = pads /\ alive')
        /\ editor_esc
             => (/\ dispatched' = dispatched
                 /\ pads' = pads
                 /\ editor_esc'
                 /\ Len(input_queue') >= Len(input_queue)
                 /\ \A i \in 1 .. Len(input_queue) :
                      input_queue'[i] = input_queue[i])]_vars

\* the exit command was dispatched after a typed character, and a command
\* read behind it is still queued when the program ends
C25_Witness ==
  /\ editor_esc
  /\ ~alive
  /\ pads[1].buffer[1] = <<97, 84, 104, 97, 116>>
  /\ Len(dispatched) = 2
  /\ input_queue # <<>>

\* C26: pad_move and editor_event with a pad id outside 0 .. len(pads) - 1,
\* negative ids included, change no pad and raise nothing, and pad_move
\* returns False.
C26_NoSuchPad ==
  /\ [](\A pad_id \in OtherIds, cmd \in Cmds \cup {"exit"}, msg \in Keys :
          editor_event(pads, editor_esc, pad_id, cmd, msg)
            = [pads |-> pads, editor_esc |-> editor_esc, raised |-> FALSE])
  /\ [](\A pad_id \in OtherIds, dx \in OptArgs :
          pad_move(pads, pad_id, dx, NoArg, NoArg, NoArg)
            = [pads |-> pads, raised |-> FALSE, changed |-> FALSE])
  /\ [][(last'.op = "pad_move" /\ last'.id \in OtherIds)
          => (pads' = pads /\ ~last'.raised)]_vars

\* C27: every pad_move call terminates, on every pad that pad_create makes
\* from non-negative arguments: a call that has reached its while loop
\* returns, and no iteration of the loop leaves the cursor row, which with
\* the pad height is all the loop condition reads, where it was.
C27_Terminates ==
  /\ (last.op = "while") ~> (last.op = "pad_move")
  /\ [][(last.op = "while" /\ last'.op = "while")
          => pads'[1].cur_y < pads[1].cur_y]_vars

\* C28: the editor of led_zero dispatches the commands in the order in which
\* their key bytes were read and none of them twice: the byte numbers of the
\* events dispatched so far increase.
C28_InOrder ==
  \A i \in 1 .. Len(dispatched) - 1 : dispatched[i] < dispatched[i + 1]

\* C29: every event input_loop puts on input_queue has a cmd of the
\* normalized vocabulary, and the editor loop never gets an event it has no
\* branch for.
C29_Vocabulary ==
  /\ [](\A i \in 1 .. Len(input_queue) :
          input_queue[i].cmd \in
            {"up", "down", "left", "right", "home", "end", "PgUp", "PgDown",
             "Start", "End", "bsp", "nl", "char", "exit", "err", "tab"})
  /\ [][dispatched' # dispatched
          => last'.op \in PadCmds \cup {"exit", "err"}]_vars

\* C30: size clamps: when the delta would take the parent's ratio past 0.8
\* or 0.2, the call leaves the ratio at that bound.
C30_Clamp ==
  \A id \in Ids, delta \in ResizeDeltas, i \in 1 .. Len(frames) :
    (Target(id) # root_id /\ Target(id) \in ChildIds(frames[i])) =>
      LET to == frames[i].ratio
                  + (IF frames[i].c_lu = Target(id) THEN delta ELSE 0 - delta)
      IN /\ to > RatioHigh
              => size(State, id, delta).frames[i].ratio = RatioHigh
         /\ to < RatioLow
              => size(State, id, delta).frames[i].ratio = RatioLow

\* what a size call may do: s2 is the state after size(id, delta)
SizeEffect(s2, id, delta) ==
  /\ s2.active_id = active_id
  /\ s2.root_id = root_id
  /\ s2.fr_id = fr_id
  /\ Len(s2.frames) = Len(frames)
  /\ \A i \in 1 .. Len(frames) :
       /\ s2.frames[i] = [frames[i] EXCEPT !.ratio = s2.frames[i].ratio]
       /\ s2.frames[i].ratio # frames[i].ratio
            => /\ Target(id) \in ChildIds(frames[i])
               /\ Target(id) # root_id
               /\ delta # 0
               /\ s2.frames[i].ratio - frames[i].ratio
                    = (IF frames[i].c_lu = Target(id) THEN delta ELSE 0 - delta)

\* C31: size(id, delta) changes nothing but the ratio of the parent of id,
\* upwards for the left child and downwards for the right child when
\* delta > 0 (the other way round when delta < 0), and changes nothing at
\* all when id is the root, has no parent or delta is 0; the links of the
\* tree and active_id stay as they are.
C31_SizeEffect ==
  \A id \in Ids, delta \in ResizeDeltas :
    SizeEffect(size(State, id, delta), id, delta)

\* a size call has shrunk the ratio of an internal frame below the root by
\* MaxDelta, and the active frame is its right child, which a positive
\* delta grows
C31_Witness ==
  /\ last.op = "size"
  /\ \E i \in 1 .. Len(frames) :
       /\ frames[i].id # root_id
       /\ frames[i].c_rd = active_id
       /\ frames[i].ratio = RatioSplit - MaxDelta

\* C32: an up or down command that lands on a line shorter than the column
\* the cursor had leaves the cursor at the end of that line: the absolute
\* column is the length of the new line.
C32_ShorterLine ==
  [][(/\ last'.op \in {"up", "down"}
      /\ ~last'.raised
      /\ Row(pads'[1]) # Row(pads[1])
      /\ Len(pads'[1].buffer[Row(pads'[1]) + 1]) < Col(pads[1]))
       => Col(pads'[1]) = Len(pads'[1].buffer[Row(pads'[1]) + 1])]_vars

\* C33: a relative move up by dy rows with at least dy rows above the cursor
\* lowers the absolute row by exactly dy; PgUp with at least height rows
\* above the cursor moves up exactly one page.
C33_RowsUp ==
  /\ [](\A d \in 1 .. MaxRows :
          Row(pads[1]) >= d =>
            LET r == pad_move(pads, 0, NoArg, Arg(0 - d), NoArg, NoArg)
            IN ~r.raised /\ Row(r.pads[1]) = Row(pads[1]) - d)
  /\ [][(last'.op = "PgUp" /\ Row(pads[1]) >= pads[1].height)
          => (/\ ~last'.raised
              /\ Row(pads'[1]) = Row(pads[1]) - pads[1].height)]_vars

\* C34: typing the characters of a string and giving bsp as many times
\* restores the viewport as well: the origin (buf_x, buf_y) and the cursor
\* inside the window (cur_x, cur_y) are what they were, with the buffer.
C34_ViewportRestored ==
  \A s \in Strings :
    LET res == Erased(Typed(Ok(pads[1], FALSE), s), Len(s))
    IN ~res.raised /\ res.p = pads[1]

\* the rectangle of fr lies inside the surface sf
Inside(fr, sf) ==
  /\ sf[1] <= fr.x /\ fr.x + fr.wx <= sf[1] + sf[3]
  /\ sf[2] <= fr.y /\ fr.y + fr.hy <= sf[2] + sf[4]
  /\ fr.wx >= 0 /\ fr.hy >= 0

\* the rectangles of a and b have a point in common
Overlap(a, b) ==
  /\ a.x < b.x + b.wx /\ b.x < a.x + a.wx
  /\ a.y < b.y + b.hy /\ b.y < a.y + a.hy

\* the leaves of fs tile a part of the surface sf
Tiled(fs, sf) ==
  \A i \in 1 .. Len(fs) :
    IsLeaf(fs[i]) =>
      /\ Inside(fs[i], sf)
      /\ \A j \in 1 .. Len(fs) :
           (IsLeaf(fs[j]) /\ j # i) => ~Overlap(fs[i], fs[j])

\* C35: after geometry(x, y, w, h) on a tree reached by split, delete and
\* size, every leaf rectangle lies inside (x, y, w, h) and no two leaf
\* rectangles overlap.
C35_LeavesTile ==
  \A sf \in Surfaces :
    Tiled(geometry(State, sf[1], sf[2], sf[3], sf[4]).frames, sf)

\* geometry has laid out, on the small surface, a tree that was split twice
\* and lost a leaf, with a resized ratio and two leaves of positive area
C35_Witness ==
  /\ last.op = "geometry"
  /\ fr_id = 5
  /\ Len(frames) = 3
  /\ Rect(FrameOf(frames, root_id)) = <<1, 2, MaxSurface, MaxSurface - 2>>
  /\ FrameOf(frames, root_id).ratio = RatioSplit + MaxDelta
  /\ \A i \in 1 .. Len(frames) : frames[i].wx > 0 /\ frames[i].hy > 0

\* C36: in the prototype, after any sequence of split and close, every
\* LFrame has zero or two children: close never leaves a parent with one.
C36_NoSingleton ==
  \A i \in 1 .. Len(lframes) : (lframes[i].rc = 0) <=> (lframes[i].lc = 0)

\* C37: in the prototype, frame_geometry stores on the two leaves of a
\* Horizontal split with ratio 0.5 of (0, 0, 800, 600) the rectangles
\* (0, 0, 400, 600) and (400, 0, 400, 600), so the two children have
\* different origins.
C37_StoredRects ==
  LET fs == frame_geometry(lframes, 0, 0, 800, 600, 1)
      rc == lframes[1].rc
      lc == lframes[1].lc
  IN (/\ rc # 0 /\ lc # 0
      /\ lframes[1].dir = "HORIZONTAL"
      /\ lframes[1].ratio = RatioSplit
      /\ fs[rc].rc = 0 /\ fs[rc].lc = 0
      /\ fs[lc].rc = 0 /\ fs[lc].lc = 0)
       => {<<fs[rc].x, fs[rc].y, fs[rc].w, fs[rc].h>>,
           <<fs[lc].x, fs[lc].y, fs[lc].w, fs[lc].h>>}
            = {<<0, 0, 400, 600>>, <<400, 0, 400, 600>>}

\* C38: split(id) and delete(id) with an explicit id that is not the active
\* frame leave active_id as it is, whether they succeed or fail.
C38_ActiveKept ==
  [][(/\ last'.op \in {"split", "delete"}
      /\ last'.id # 0
      /\ last'.id # active_id)
       => active_id' = active_id]_vars

\* a leaf other than the active one has just been closed: the active frame
\* is not the first leaf of the store, where closing the active frame would
\* have put it
C38_Witness ==
  /\ last.op = "delete"
  /\ last.ret
  /\ last.id # 0
  /\ Len(frames) >= 3
  /\ active_id # win_frames_wfr(frames)[1].id

\* C39: the absolute jumps land where they name.  home returns with
\* buf_x = 0 and cur_x = 0 on the same row; Start returns with origin (0,0)
\* and cursor (0,0); End returns on the last line of the buffer, in the
\* column that equals that line's length; none of them raises or changes
\* the buffer.
C39_AbsoluteJumps ==
  [][/\ last'.op \in {"home", "Start", "End"}
          => /\ ~last'.raised
             /\ pads'[1].buffer = pads[1].buffer
     /\ last'.op = "home"
          => /\ pads'[1].buf_x = 0
             /\ pads'[1].cur_x = 0
             /\ Row(pads'[1]) = Row(pads[1])
     /\ last'.op = "Start"
          => /\ pads'[1].buf_x = 0
             /\ pads'[1].buf_y = 0
             /\ pads'[1].cur_x = 0
             /\ pads'[1].cur_y = 0
     /\ last'.op = "End"
          => /\ Row(pads'[1]) = Len(pads[1].buffer) - 1
             /\ Col(pads'[1]) = Len(pads[1].buffer[Len(pads[1].buffer)])]_vars

\* End has acted on a buffer taller than the window whose last line is wider
\* than the window: both origins are scrolled
C39_Witness ==
  /\ last.op = "End"
  /\ ~last.raised
  /\ pads[1].buf_y > 0
  /\ pads[1].buf_x > 0
  /\ Row(pads[1]) = Len(pads[1].buffer) - 1
  /\ Col(pads[1]) = Len(pads[1].buffer[Len(pads[1].buffer)])

\* the rows of pad p and of the pad q that pad_move(dy = d) made of it: down
\* by exactly d if that row is in the buffer, else origin and cursor rows as
\* they were; in both cases the row is a line of the buffer
DownEffect(p, q, d) ==
  /\ IF Row(p) + d < Len(p.buffer)
     THEN Row(q) = Row(p) + d
     ELSE q.buf_y = p.buf_y /\ q.cur_y = p.cur_y
  /\ Row(q) < Len(q.buffer)

\* C40: pad_move(dy) with dy > 0 either moves the absolute row down by
\* exactly dy (when buf_y + cur_y + dy < len(buffer)) or leaves origin and
\* cursor rows as they were, and never puts the row at or behind
\* len(buffer); PgDown with fewer than height lines below the cursor does
\* not move the cursor at all.
C40_Down ==
  /\ [](\A d \in 1 .. MaxRows :
          LET r == pad_move(pads, 0, NoArg, Arg(d), NoArg, NoArg)
          IN ~r.raised /\ DownEffect(pads[1], r.pads[1], d))
  /\ [][/\ last'.op \in {"down", "PgDown"}
             => ~last'.raised /\ Row(pads'[1]) < Len(pads'[1].buffer)
        /\ last'.op = "down" => DownEffect(pads[1], pads'[1], 1)
        /\ last'.op = "PgDown"
             => DownEffect(pads[1], pads'[1], pads[1].height)
        /\ (/\ last'.op = "PgDown"
            /\ Len(pads[1].buffer) - 1 - Row(pads[1]) < pads[1].height)
             => pads' = pads]_vars

\* PgDown has acted with lines below the cursor, but fewer than height: the
\* row is too small to have been reached by a move of height rows
C40_Witness ==
  /\ last.op = "PgDown"
  /\ ~last.raised
  /\ Row(pads[1]) >= 1
  /\ Row(pads[1]) < pads[1].height
  /\ Row(pads[1]) < Len(pads[1].buffer) - 1
  /\ Len(pads[1].buffer) - 1 - Row(pads[1]) < pads[1].height
====
